---- MODULE Spec2Model ----
(***************************************************************************)
(* A model of the react-keybind dispatch engine (src/src/index.tsx): the   *)
(* ShortcutProvider's refs are the state, its callbacks are the handlers.  *)
(*                                                                         *)
(* Representation.                                                         *)
(*  - A string is a TLA+ string.  A raw key specification passed to the    *)
(*    control surface ('cTrL+C') is given in split form, the sequence of   *)
(*    its '+'-separated tokens (<<"cTrL", "C">>); its string is the        *)
(*    '+'-join of the tokens.  Listener-map keys, keysDown and             *)
(*    previousKeys hold real strings, joined with '+' and ',' as the code  *)
(*    joins them.                                                          *)
(*  - toLowerCase is the table LowerTable over the strings the model       *)
(*    uses; every string outside the table is already lower case.          *)
(*  - Time advances in steps of TickMs = 100 ms, the period of the hold    *)
(*    interval.  Every processed key-down restarts the hold interval and   *)
(*    the sequence timeout together, so with a sequence timeout that is a  *)
(*    multiple of 100 ms both timers are due on the same 100 ms grid.      *)
(*  - A callback is an opaque identifier; invoking it appends it to fired, *)
(*    the list of callbacks invoked by the last handler in call order.     *)
(*    title and description are display metadata and are left out.         *)
(***************************************************************************)
EXTENDS Integers, Sequences, FiniteSets, TLC

VARIABLES
  props,              \* the provider's props (configuration), fixed per run
  isEnabled,          \* isEnabled.current
  keysDown,           \* keysDown.current
  previousKeys,       \* previousKeys.current
  holdInterval,       \* holdInterval.current: None, or Some(the running interval's closure)
  holdTimer,          \* holdTimer.current (ms)
  sequenceTimer,      \* sequenceTimer.current: None, or Some(ms left of the pending timeout)
  listeners,          \* listeners.current
  holdListeners,      \* holdListeners.current
  holdDurations,      \* holdDurations.current
  sequenceListeners,  \* sequenceListeners.current
  shortcuts,          \* shortcuts.current
  fired,              \* callbacks invoked by the last handler, in call order
  prevented,          \* the last handler called e.preventDefault()
  threw,              \* the last handler ended by throwing a TypeError
  hist                \* the handlers run so far, as records (scenario specifications only)

engineVars == <<isEnabled, keysDown, previousKeys, holdInterval, holdTimer, sequenceTimer,
                listeners, holdListeners, holdDurations, sequenceListeners, shortcuts>>
outVars == <<fired, prevented, threw>>
vars == <<props, engineVars, outVars, hist>>

-----------------------------------------------------------------------------
(* Values *)

\* an undefined event key (e.key of type string | undefined)
Undefined == "<undefined>"

\* an optional value of any other type: undefined, or the value
None == <<>>

Some(v) == <<v>>

IsDefined(o) == o # None

Val(o) == o[1]

TickMs == 100

DefaultSequenceTimeout == 2000

ignoreForTagNames == <<"input">>

specialKeys == <<"control", "alt", "meta", "shift">>

EmptyMap == [x \in {} |-> None]

Has(seq, x) == \E i \in 1..Len(seq) : seq[i] = x

Put(m, k, v) == [x \in DOMAIN m \cup {k} |-> IF x = k THEN v ELSE m[x]]

Del(m, k) == [x \in DOMAIN m \ {k} |-> m[x]]

Filter(seq, Keep(_)) == SelectSeq(seq, Keep)

MapSeq(seq, F(_)) == [i \in 1..Len(seq) |-> F(seq[i])]

RECURSIVE Join(_, _)
Join(seq, sep) ==
  IF Len(seq) = 0 THEN ""
  ELSE IF Len(seq) = 1 THEN seq[1]
  ELSE seq[1] \o sep \o Join(Tail(seq), sep)

LowerTable ==
  [s \in {"Control", "Alt", "Meta", "Shift", "A", "B", "X", "cTrL", "C", "K", "INPUT",
          "TextArea", "DIV", "Cmd", "Up"} |->
     CASE s = "Control" -> "control"
       [] s = "Alt" -> "alt"
       [] s = "Meta" -> "meta"
       [] s = "Shift" -> "shift"
       [] s = "A" -> "a"
       [] s = "B" -> "b"
       [] s = "X" -> "x"
       [] s = "cTrL" -> "ctrl"
       [] s = "C" -> "c"
       [] s = "K" -> "k"
       [] s = "INPUT" -> "input"
       [] s = "TextArea" -> "textarea"
       [] s = "DIV" -> "div"
       [] s = "Cmd" -> "cmd"
       [] s = "Up" -> "up"]

ToLowerCase(s) == IF s \in DOMAIN LowerTable THEN LowerTable[s] ELSE s

-----------------------------------------------------------------------------
(* Key Normalizer *)

\* mutant: the alias control is not replaced
TransformToken_NoControl(key) ==
  LET keyEvent == ToLowerCase(key)
  IN CASE keyEvent \in {"opt", "option"} -> "alt"
       [] keyEvent \in {"cmd", "command"} -> "meta"
       [] OTHER -> keyEvent

TransformToken(key) ==
  LET keyEvent == ToLowerCase(key)
  IN CASE keyEvent \in {"opt", "option"} -> "alt"
       [] keyEvent = "control" -> "ctrl"
       [] keyEvent \in {"cmd", "command"} -> "meta"
       [] OTHER -> keyEvent

\* one raw key specification, in split form, to its canonical string
TransformKey(rawKeys) == Join(MapSeq(rawKeys, TransformToken), "+")

transformKeys(keys) == MapSeq(keys, TransformKey)

\* the string a raw key specification in split form stands for
RawString(rawKeys) == Join(rawKeys, "+")

-----------------------------------------------------------------------------
(* The engine as a value, and the handlers as functions of it *)

Cur ==
  [isEnabled |-> isEnabled, keysDown |-> keysDown, previousKeys |-> previousKeys,
   holdInterval |-> holdInterval, holdTimer |-> holdTimer, sequenceTimer |-> sequenceTimer,
   listeners |-> listeners, holdListeners |-> holdListeners,
   holdDurations |-> holdDurations, sequenceListeners |-> sequenceListeners,
   shortcuts |-> shortcuts, fired |-> fired, prevented |-> prevented, threw |-> threw]

InitEngine ==
  [isEnabled |-> TRUE, keysDown |-> <<>>, previousKeys |-> <<>>,
   holdInterval |-> None, holdTimer |-> 0, sequenceTimer |-> None,
   listeners |-> EmptyMap, holdListeners |-> EmptyMap,
   holdDurations |-> EmptyMap, sequenceListeners |-> EmptyMap,
   shortcuts |-> <<>>, fired |-> <<>>, prevented |-> FALSE, threw |-> FALSE]

\* a handler starts with nothing invoked yet
Enter(s) == [s EXCEPT !.fired = <<>>, !.prevented = FALSE, !.threw = FALSE]

DefaultProps ==
  [ignoreKeys |-> None, ignoreTagNames |-> None, preventDefault |-> None,
   sequenceTimeout |-> None]

resetTimer(s) ==
  IF IsDefined(s.holdInterval)
  THEN [s EXCEPT !.holdInterval = None, !.holdTimer = 0]
  ELSE s

\* the interval's closure keeps the key-down's nextKeysDown and keyPress
createTimer(s, nextKeysDown, keyPress) ==
  [s EXCEPT !.holdInterval = Some([keys |-> nextKeysDown, keyPress |-> keyPress])]

\* mutant: a configured sequenceTimeout is not used
SequenceTimeoutOf_Default(p) == DefaultSequenceTimeout

SequenceTimeoutOf(p) ==
  IF IsDefined(p.sequenceTimeout) THEN Val(p.sequenceTimeout) ELSE DefaultSequenceTimeout

IgnoreKeysOf(p) == IF IsDefined(p.ignoreKeys) THEN Val(p.ignoreKeys) ELSE <<>>

\* mutant: configured tag names replace the default tags
IgnoreTagsOf_ConfiguredOnly(p) ==
  IF IsDefined(p.ignoreTagNames)
  THEN MapSeq(Val(p.ignoreTagNames), ToLowerCase)
  ELSE ignoreForTagNames

IgnoreTagsOf(p) ==
  IF IsDefined(p.ignoreTagNames)
  THEN MapSeq(Val(p.ignoreTagNames), ToLowerCase) \o ignoreForTagNames
  ELSE ignoreForTagNames

PreventDefaultOf(p) == IF IsDefined(p.preventDefault) THEN Val(p.preventDefault) ELSE TRUE

\* mutant: the event's key is not lower-cased
EventKey_NoLower(e) == e.key

EventKey(e) == IF e.key = Undefined THEN Undefined ELSE ToLowerCase(e.key)

\* a key that is neither undefined nor the empty string
Truthy(key) == key # Undefined /\ key # ""

\* mutant: ignoreKeys is not consulted for a modifier
ModDown_NeverIgnored(s, key, flag, keyName, token, ignored) ==
  IF key = keyName \/ flag
  THEN [down |-> IF ~Has(s.keysDown, token) THEN <<token>> ELSE <<>>,
        mod |-> IF key = keyName THEN <<key>> ELSE <<>>]
  ELSE [down |-> <<>>, mod |-> <<>>]

\* the tokens one modifier contributes to nextKeysDown and to nextModKeys
ModDown(s, key, flag, keyName, token, ignored) ==
  IF (key = keyName \/ flag) /\ ~ignored
  THEN [down |-> IF ~Has(s.keysDown, token) THEN <<token>> ELSE <<>>,
        mod |-> IF key = keyName THEN <<key>> ELSE <<>>]
  ELSE [down |-> <<>>, mod |-> <<>>]

NextKeys(s, p, e) ==
  LET key == EventKey(e)
      ignoreKeys == IgnoreKeysOf(p)
      c == ModDown(s, key, e.ctrlKey, "control", "ctrl", Has(ignoreKeys, "ctrl"))
      a == ModDown(s, key, e.altKey, "alt", "alt", Has(ignoreKeys, "alt"))
      m == ModDown(s, key, e.metaKey, "meta", "meta",
                   Has(ignoreKeys, "meta") \/ Has(ignoreKeys, "cmd"))
      h == ModDown(s, key, e.shiftKey, "shift", "shift", Has(ignoreKeys, "shift"))
      nextModKeys == c.mod \o a.mod \o m.mod \o h.mod
      main == IF ~Has(ignoreKeys \o nextModKeys, key) THEN <<key>> ELSE <<>>
  IN c.down \o a.down \o m.down \o h.down \o main

\* mutant: only the first listener of the combination is invoked
DispatchCombination_FirstOnly(s, p, keyPress) ==
  IF keyPress \in DOMAIN s.listeners
  THEN [s EXCEPT !.prevented = PreventDefaultOf(p),
                 !.fired = s.fired \o SubSeq(s.listeners[keyPress], 1, 1)]
  ELSE s

\* lines 193-200: the combination listeners of the live combination string
DispatchCombination(s, p, keyPress) ==
  IF keyPress \in DOMAIN s.listeners
  THEN [s EXCEPT !.prevented = PreventDefaultOf(p),
                 !.fired = s.fired \o s.listeners[keyPress]]
  ELSE s

\* mutant: a registered sequence also matches as a suffix of the pushed tokens
TrackSequence_MatchesSuffix(s, p, nextKeysDown) ==
  LET hadTimer == IsDefined(s.sequenceTimer)
      pushed == s.previousKeys \o nextKeysDown
      matching == {i \in 1..Len(pushed) :
                     Join(SubSeq(pushed, i, Len(pushed)), ",") \in DOMAIN s.sequenceListeners}
      match == matching # {}
      sequenceKeys == Join(SubSeq(pushed, CHOOSE i \in matching : TRUE, Len(pushed)), ",")
  IN [s EXCEPT !.fired = IF match THEN s.fired \o <<s.sequenceListeners[sequenceKeys]>>
                         ELSE s.fired,
               !.previousKeys = IF match /\ hadTimer THEN <<>> ELSE pushed,
               !.sequenceTimer = Some(SequenceTimeoutOf(p))]

\* mutant: a pending sequence timeout is left running instead of being restarted
TrackSequence_KeepsOldTimer(s, p, nextKeysDown) ==
  LET hadTimer == IsDefined(s.sequenceTimer)
      pushed == s.previousKeys \o nextKeysDown
      sequenceKeys == Join(pushed, ",")
      match == sequenceKeys \in DOMAIN s.sequenceListeners
  IN [s EXCEPT !.fired = IF match THEN s.fired \o <<s.sequenceListeners[sequenceKeys]>>
                         ELSE s.fired,
               !.previousKeys = IF match /\ hadTimer THEN <<>> ELSE pushed,
               !.sequenceTimer = IF hadTimer /\ ~match THEN s.sequenceTimer
                                 ELSE Some(SequenceTimeoutOf(p))]

\* lines 214-236: sequence tracking
TrackSequence(s, p, nextKeysDown) ==
  LET hadTimer == IsDefined(s.sequenceTimer)
      pushed == s.previousKeys \o nextKeysDown
      sequenceKeys == Join(pushed, ",")
      match == sequenceKeys \in DOMAIN s.sequenceListeners
  IN [s EXCEPT !.fired = IF match THEN s.fired \o <<s.sequenceListeners[sequenceKeys]>>
                         ELSE s.fired,
               !.previousKeys = IF match /\ hadTimer THEN <<>> ELSE pushed,
               !.sequenceTimer = Some(SequenceTimeoutOf(p))]

\* mutant: the enabled flag is not consulted
Processes_IgnoresEnabled(s, p, e) ==
  /\ Truthy(EventKey(e))
  /\ ~Has(IgnoreTagsOf(p), ToLowerCase(e.tagName))
  /\ ~Has(s.keysDown, EventKey(e))

\* lines 155-167: the key-down is processed, not ignored
Processes(s, p, e) ==
  /\ s.isEnabled
  /\ Truthy(EventKey(e))
  /\ ~Has(IgnoreTagsOf(p), ToLowerCase(e.tagName))
  /\ ~Has(s.keysDown, EventKey(e))

\* mutant: a key-down for a held key still appends the modifier tokens of its flags
keyDown_RepeatAddsModifiers(s0, p, e) ==
  LET s == Enter(s0)
  IN IF Processes(s, p, e)
     THEN LET nextKeysDown == NextKeys(s, p, e)
              s1 == [s EXCEPT !.keysDown = s.keysDown \o nextKeysDown]
              keyPress == Join(s1.keysDown, "+")
              s2 == DispatchCombination(s1, p, keyPress)
              s3 == createTimer(resetTimer(s2), nextKeysDown, keyPress)
          IN TrackSequence(s3, p, nextKeysDown)
     ELSE IF Has(s.keysDown, EventKey(e))
     THEN [s EXCEPT !.keysDown =
             s.keysDown \o SelectSeq(NextKeys(s, p, e), LAMBDA t : t # EventKey(e))]
     ELSE s

\* mutant: the combination string is built from the tokens of this event alone
keyDown_OwnTokens(s0, p, e) ==
  LET s == Enter(s0)
  IN IF Processes(s, p, e)
     THEN LET nextKeysDown == NextKeys(s, p, e)
              s1 == [s EXCEPT !.keysDown = s.keysDown \o nextKeysDown]
              keyPress == Join(nextKeysDown, "+")
              s2 == DispatchCombination(s1, p, keyPress)
              s3 == createTimer(resetTimer(s2), nextKeysDown, keyPress)
          IN TrackSequence(s3, p, nextKeysDown)
     ELSE s

keyDown(s0, p, e) ==
  LET s == Enter(s0)
  IN IF Processes(s, p, e)
     THEN LET nextKeysDown == NextKeys(s, p, e)
              s1 == [s EXCEPT !.keysDown = s.keysDown \o nextKeysDown]
              keyPress == Join(s1.keysDown, "+")
              s2 == DispatchCombination(s1, p, keyPress)
              s3 == createTimer(resetTimer(s2), nextKeysDown, keyPress)
          IN TrackSequence(s3, p, nextKeysDown)
     ELSE s

\* mutant: the timer is not reset after the hold listener ran
RECURSIVE HoldCheck_NoReset(_, _, _)
HoldCheck_NoReset(s, keys, keyPress) ==
  IF Len(keys) = 0 \/ s.threw THEN s
  ELSE LET key == Head(keys)
           due == key \in DOMAIN s.holdDurations /\ s.holdTimer >= s.holdDurations[key]
           s1 == IF ~due THEN s
                 ELSE IF keyPress \notin DOMAIN s.holdListeners
                 THEN [s EXCEPT !.threw = TRUE]
                 ELSE [s EXCEPT !.fired = Append(s.fired, s.holdListeners[keyPress])]
       IN HoldCheck_NoReset(s1, Tail(keys), keyPress)

\* lines 204-211: the interval's callback, for the tokens left of nextKeysDown.
\* An absent hold listener makes the call throw; the forEach ends there.
RECURSIVE HoldCheck(_, _, _)
HoldCheck(s, keys, keyPress) ==
  IF Len(keys) = 0 \/ s.threw THEN s
  ELSE LET key == Head(keys)
           due == key \in DOMAIN s.holdDurations /\ s.holdTimer >= s.holdDurations[key]
           s1 == IF ~due THEN s
                 ELSE IF keyPress \notin DOMAIN s.holdListeners
                 THEN [s EXCEPT !.threw = TRUE]
                 ELSE resetTimer([s EXCEPT !.fired = Append(s.fired, s.holdListeners[keyPress])])
       IN HoldCheck(s1, Tail(keys), keyPress)

\* lines 145-148: one firing of the hold interval
IntervalTick(s) ==
  LET r == HoldCheck([s EXCEPT !.threw = FALSE], Val(s.holdInterval).keys,
                     Val(s.holdInterval).keyPress)
  IN IF r.threw THEN r
     ELSE [r EXCEPT !.holdTimer = r.holdTimer + TickMs, !.threw = s.threw]

\* mutant: the sequence timeout's callback leaves pendingSequence as it is
SequenceTimeout_KeepsKeys(s) == [s EXCEPT !.sequenceTimer = None]

\* lines 233-236: the sequence timeout's callback
SequenceTimeout(s) == [s EXCEPT !.previousKeys = <<>>, !.sequenceTimer = None]

\* TickMs elapse: the hold interval fires if it runs, the sequence timeout if it is due
Tick(s) ==
  LET s1 == IF IsDefined(s.holdInterval) THEN IntervalTick(s) ELSE s
  IN IF ~IsDefined(s1.sequenceTimer) THEN s1
     ELSE IF Val(s1.sequenceTimer) <= TickMs THEN SequenceTimeout(s1)
     ELSE [s1 EXCEPT !.sequenceTimer = Some(Val(s1.sequenceTimer) - TickMs)]

\* n ticks in turn (holdTimer is never negative: comparing it has the evaluator
\* compute each tick before the next)
RECURSIVE Ticks(_, _)
Ticks(s, n) ==
  IF n = 0 THEN s
  ELSE LET next == Tick(s)
       IN IF next.holdTimer >= 0 THEN Ticks(next, n - 1) ELSE next

\* n * TickMs elapse with no event in between
advanceTimers(s, n) == Ticks(Enter(s), n)

\* mutant: the key-up leaves the hold timer running
keyUp_NoReset(s0, e) ==
  LET s == Enter(s0)
      key == EventKey(e)
      keysUp == (IF key = "control" \/ e.ctrlKey THEN <<"ctrl">> ELSE <<>>)
                \o (IF key = "alt" \/ e.altKey THEN <<"alt">> ELSE <<>>)
                \o (IF key = "meta" \/ e.metaKey THEN <<"meta">> ELSE <<>>)
                \o (IF key = "shift" \/ e.shiftKey THEN <<"shift">> ELSE <<>>)
                \o (IF ~Has(specialKeys, key) THEN <<key>> ELSE <<>>)
      StillDown(k) == ~Has(keysUp, k)
  IN [s EXCEPT !.keysDown = Filter(s.keysDown, StillDown)]

keyUp(s0, e) ==
  LET s == Enter(s0)
      key == EventKey(e)
      keysUp == (IF key = "control" \/ e.ctrlKey THEN <<"ctrl">> ELSE <<>>)
                \o (IF key = "alt" \/ e.altKey THEN <<"alt">> ELSE <<>>)
                \o (IF key = "meta" \/ e.metaKey THEN <<"meta">> ELSE <<>>)
                \o (IF key = "shift" \/ e.shiftKey THEN <<"shift">> ELSE <<>>)
                \o (IF ~Has(specialKeys, key) THEN <<key>> ELSE <<>>)
      StillDown(k) == ~Has(keysUp, k)
  IN resetTimer([s EXCEPT !.keysDown = Filter(s.keysDown, StillDown)])

\* mutant: focus lost empties the held keys and leaves the hold timer running
windowBlur_KeepsTimer(s0) == [Enter(s0) EXCEPT !.keysDown = <<>>]

windowBlur(s0) == resetTimer([Enter(s0) EXCEPT !.keysDown = <<>>])

-----------------------------------------------------------------------------
(* Control Surface *)

Digit36 ==
  <<"0", "1", "2", "3", "4", "5", "6", "7", "8", "9", "a", "b", "c", "d", "e", "f", "g", "h",
    "i", "j", "k", "l", "m", "n", "o", "p", "q", "r", "s", "t", "u", "v", "w", "x", "y", "z">>

\* Number.prototype.toString(36) of a natural number
RECURSIVE ToString36(_)
ToString36(n) ==
  IF n < 36 THEN Digit36[n + 1] ELSE ToString36(n \div 36) \o Digit36[(n % 36) + 1]

\* lines 314-325: a listener for each key, in order
RECURSIVE AddListeners(_, _, _, _, _)
AddListeners(s, transformedKeys, method, hold, duration) ==
  IF Len(transformedKeys) = 0 THEN s
  ELSE LET key == Head(transformedKeys)
           s1 == IF hold
                 THEN [s EXCEPT !.holdDurations = Put(s.holdDurations, key, duration),
                                !.holdListeners = Put(s.holdListeners, key, method)]
                 ELSE [s EXCEPT !.listeners =
                         Put(s.listeners, key,
                             (IF key \in DOMAIN s.listeners THEN s.listeners[key] ELSE <<>>)
                             \o <<method>>)]
       IN AddListeners(s1, Tail(transformedKeys), method, hold, duration)

\* now is the reading of Date.now()
registerShortcut(s0, method, keys, holdDuration, now) ==
  LET s == Enter(s0)
      hold == IsDefined(holdDuration)
      duration == IF IsDefined(holdDuration) THEN Val(holdDuration) ELSE 0
      transformedKeys == transformKeys(keys)
      shortcut == [id |-> ToString36(now), hold |-> hold, holdDuration |-> duration,
                   keys |-> transformedKeys, method |-> method, sequence |-> FALSE]
      s1 == AddListeners(s, transformedKeys, method, hold, duration)
  IN [s1 EXCEPT !.shortcuts = Append(s.shortcuts, shortcut)]

\* keys.join(',').toLowerCase(): lower-casing leaves the separators alone
SequenceKeyEvent(keys) ==
  LET LowerRaw(rawKeys) == Join(MapSeq(rawKeys, ToLowerCase), "+")
  IN Join(MapSeq(keys, LowerRaw), ",")

\* mutant: an existing sequence listener is replaced
registerSequenceShortcut_Overwrites(s0, method, keys, now) ==
  LET s == Enter(s0)
      shortcut == [id |-> ToString36(now), hold |-> FALSE, holdDuration |-> 0,
                   keys |-> MapSeq(keys, RawString), method |-> method, sequence |-> TRUE]
      keyEvent == SequenceKeyEvent(keys)
  IN [s EXCEPT !.sequenceListeners = Put(s.sequenceListeners, keyEvent, method),
               !.shortcuts = Append(s.shortcuts, shortcut)]

registerSequenceShortcut(s0, method, keys, now) ==
  LET s == Enter(s0)
      shortcut == [id |-> ToString36(now), hold |-> FALSE, holdDuration |-> 0,
                   keys |-> MapSeq(keys, RawString), method |-> method, sequence |-> TRUE]
      keyEvent == SequenceKeyEvent(keys)
      exists == keyEvent \in DOMAIN s.sequenceListeners
  IN IF ~exists
     THEN [s EXCEPT !.sequenceListeners = Put(s.sequenceListeners, keyEvent, method),
                    !.shortcuts = Append(s.shortcuts, shortcut)]
     ELSE s

\* mutant: the key is looked up as passed
triggerShortcut_Raw(s0, key) ==
  LET s == Enter(s0)
      transformKey == RawString(key)
  IN IF transformKey # "" /\ transformKey \in DOMAIN s.listeners
     THEN [s EXCEPT !.fired = s.fired \o s.listeners[transformKey]]
     ELSE s

triggerShortcut(s0, key) ==
  LET s == Enter(s0)
      transformKey == TransformKey(key)
  IN IF transformKey # "" /\ transformKey \in DOMAIN s.listeners
     THEN [s EXCEPT !.fired = s.fired \o s.listeners[transformKey]]
     ELSE s

\* lines 407-417: the listeners of each key, in order
RECURSIVE RemoveListeners(_, _)
RemoveListeners(s, transformedKeys) ==
  IF Len(transformedKeys) = 0 THEN s
  ELSE LET key == Head(transformedKeys)
           popped == IF key \in DOMAIN s.listeners
                     THEN SubSeq(s.listeners[key], 1, Len(s.listeners[key]) - 1)
                     ELSE <<>>
           s1 == IF key \in DOMAIN s.listeners
                 THEN [s EXCEPT !.listeners = IF Len(popped) = 0 THEN Del(s.listeners, key)
                                              ELSE Put(s.listeners, key, popped)]
                 ELSE s
           s2 == [s1 EXCEPT !.holdListeners = Del(s1.holdListeners, key),
                            !.holdDurations = Del(s1.holdDurations, key)]
       IN RemoveListeners(s2, Tail(transformedKeys))

\* mutant: the bindings list is left as it is
unregisterShortcut_KeepsBindings(s0, keys, sequence) ==
  LET s == Enter(s0)
      transformedKeys == transformKeys(keys)
  IN IF ~sequence THEN RemoveListeners(s, transformedKeys)
     ELSE [s EXCEPT !.sequenceListeners =
             Del(s.sequenceListeners, Join(transformedKeys, ","))]

unregisterShortcut(s0, keys, sequence) ==
  LET s == Enter(s0)
      transformedKeys == transformKeys(keys)
      s1 == IF ~sequence THEN RemoveListeners(s, transformedKeys)
            ELSE [s EXCEPT !.sequenceListeners =
                    Del(s.sequenceListeners, Join(transformedKeys, ","))]
      Kept(shortcut) ==
        ~(\A i \in 1..Len(shortcut.keys) : Has(transformedKeys, shortcut.keys[i]))
  IN [s1 EXCEPT !.shortcuts = Filter(s.shortcuts, Kept)]

setEnabled(s0, enabled) == [Enter(s0) EXCEPT !.isEnabled = enabled]

-----------------------------------------------------------------------------
(* Actions: a handler runs to completion on the current state *)

Apply(r) ==
  /\ isEnabled' = r.isEnabled
  /\ keysDown' = r.keysDown
  /\ previousKeys' = r.previousKeys
  /\ holdInterval' = r.holdInterval
  /\ holdTimer' = r.holdTimer
  /\ sequenceTimer' = r.sequenceTimer
  /\ listeners' = r.listeners
  /\ holdListeners' = r.holdListeners
  /\ holdDurations' = r.holdDurations
  /\ sequenceListeners' = r.sequenceListeners
  /\ shortcuts' = r.shortcuts
  /\ fired' = r.fired
  /\ prevented' = r.prevented
  /\ threw' = r.threw
  /\ UNCHANGED props

Event(key, ctrlKey, altKey, metaKey, shiftKey, tagName) ==
  [key |-> key, ctrlKey |-> ctrlKey, altKey |-> altKey, metaKey |-> metaKey,
   shiftKey |-> shiftKey, tagName |-> tagName]

KeyDown(e) == Apply(keyDown(Cur, props, e))

KeyUp(e) == Apply(keyUp(Cur, e))

WindowBlur == Apply(windowBlur(Cur))

AdvanceTimers(n) == Apply(advanceTimers(Cur, n))

RegisterShortcut(method, keys, holdDuration, now) ==
  Apply(registerShortcut(Cur, method, keys, holdDuration, now))

RegisterSequenceShortcut(method, keys, now) ==
  Apply(registerSequenceShortcut(Cur, method, keys, now))

UnregisterShortcut(keys, sequence) == Apply(unregisterShortcut(Cur, keys, sequence))

TriggerShortcut(key) == Apply(triggerShortcut(Cur, key))

SetEnabled(enabled) == Apply(setEnabled(Cur, enabled))

InitWith(p) ==
  /\ props = p
  /\ isEnabled = InitEngine.isEnabled
  /\ keysDown = InitEngine.keysDown
  /\ previousKeys = InitEngine.previousKeys
  /\ holdInterval = InitEngine.holdInterval
  /\ holdTimer = InitEngine.holdTimer
  /\ sequenceTimer = InitEngine.sequenceTimer
  /\ listeners = InitEngine.listeners
  /\ holdListeners = InitEngine.holdListeners
  /\ holdDurations = InitEngine.holdDurations
  /\ sequenceListeners = InitEngine.sequenceListeners
  /\ shortcuts = InitEngine.shortcuts
  /\ fired = InitEngine.fired
  /\ prevented = InitEngine.prevented
  /\ threw = InitEngine.threw
  /\ hist = <<>>

-----------------------------------------------------------------------------
(* Logging: a scenario specification keeps the run so far in hist, one entry per  *)
(* handler run: the handler, its arguments, whether it ran past its guards (a     *)
(* key-down that was processed), the keys held when it was entered and the       *)
(* callbacks it invoked.                                                          *)

Log(op, arg, ran) ==
  hist' = Append(hist, [op |-> op, arg |-> arg, ran |-> ran, held |-> keysDown,
                        fired |-> fired'])

Last == hist[Len(hist)]

NoFlags(key, tagName) == Event(key, FALSE, FALSE, FALSE, FALSE, tagName)

Count(seq, x) == Cardinality({i \in 1..Len(seq) : seq[i] = x})

\* how often callback cb was invoked by the entries i..j of hist
RECURSIVE Calls(_, _, _)
Calls(cb, i, j) == IF i > j THEN 0 ELSE Count(hist[i].fired, cb) + Calls(cb, i + 1, j)

DoKeyDown(e) == KeyDown(e) /\ Log("keyDown", e, Processes(Cur, props, e))

DoKeyUp(e) == KeyUp(e) /\ Log("keyUp", e, TRUE)

DoWindowBlur == WindowBlur /\ Log("windowBlur", <<>>, TRUE)

DoAdvanceTimers(n) == AdvanceTimers(n) /\ Log("advanceTimers", n, TRUE)

DoRegisterShortcut(method, keys, holdDuration) ==
  RegisterShortcut(method, keys, holdDuration, 0)
  /\ Log("registerShortcut",
         [method |-> method, keys |-> keys, holdDuration |-> holdDuration], TRUE)

DoRegisterSequenceShortcut(method, keys) ==
  RegisterSequenceShortcut(method, keys, 0)
  /\ Log("registerSequenceShortcut", [method |-> method, keys |-> keys], TRUE)

DoUnregisterShortcut(keys, sequence) ==
  UnregisterShortcut(keys, sequence)
  /\ Log("unregisterShortcut", [keys |-> keys, sequence |-> sequence], TRUE)

DoTriggerShortcut(key) == TriggerShortcut(key) /\ Log("triggerShortcut", key, TRUE)

DoSetEnabled(enabled) == SetEnabled(enabled) /\ Log("setEnabled", enabled, TRUE)

-----------------------------------------------------------------------------
(* Single keys: a combination binding on one unmodified key *)

MaxHistSingle == 3

SingleKeys == {"x", "X", "a", "1"}

SingleEventKeys == {"x", "X", "a", "b", "1", "Control", "Shift"}

SingleTags == {"div", "INPUT"}

InitSingle == InitWith(DefaultProps)

RegisterSingle ==
  /\ Len(hist) < MaxHistSingle
  /\ \E k \in SingleKeys : DoRegisterShortcut("m1", <<(<<k>>)>>, None)

KeyDownSingle ==
  /\ Len(hist) < MaxHistSingle
  /\ \E j \in SingleEventKeys, tag \in SingleTags : DoKeyDown(NoFlags(j, tag))

NextSingle == RegisterSingle \/ KeyDownSingle

SpecSingle == InitSingle /\ [][NextSingle]_vars

\* the run is registerShortcut(m1, [k]) then key-down(j), no flag, on a tag not ignored
SingleCase ==
  /\ Len(hist) = 2
  /\ hist[1].op = "registerShortcut"
  /\ hist[2].op = "keyDown"
  /\ ToLowerCase(hist[2].arg.tagName) # "input"

\* C1: from the initial state, after registerShortcut(cb, [k]) a key-down(k) with no
\* modifier flag invokes cb exactly once and a key-down of any other key never invokes
\* it (keys are the same key when their names agree up to letter case)
C1_SingleKey ==
  SingleCase =>
    LET k == hist[1].arg.keys[1][1]
        j == hist[2].arg.key
    IN Count(fired, "m1") = IF ToLowerCase(j) = ToLowerCase(k) THEN 1 ELSE 0

C1_Witness ==
  SingleCase /\ hist[2].arg.key = "X" /\ hist[1].arg.keys[1][1] = "x" /\ fired = <<"m1">>

-----------------------------------------------------------------------------
(* Modifiers: combinations of one modifier and a key, pressed either way *)

MaxHistModifier == 3

Modifiers == {"ctrl", "alt", "meta", "shift"}

\* the key whose key-down stands for a modifier
ModifierKey(m) ==
  CASE m = "ctrl" -> "Control" [] m = "alt" -> "Alt" [] m = "meta" -> "Meta"
    [] m = "shift" -> "Shift"

\* key-down or key-up of key with modifier m's flag set
Flagged(m, key, tagName) ==
  Event(key, m = "ctrl", m = "alt", m = "meta", m = "shift", tagName)

InitModifier == InitWith(DefaultProps)

RegisterModifier ==
  /\ Len(hist) < MaxHistModifier
  /\ \E m \in Modifiers : DoRegisterShortcut("m1", <<(<<m, "x">>)>>, None)

RegisterSequenceModifier ==
  /\ Len(hist) < MaxHistModifier
  /\ \E m \in Modifiers : DoRegisterSequenceShortcut("s1", <<(<<m>>), (<<"x">>)>>)

KeyDownModifierKey ==
  /\ Len(hist) < MaxHistModifier
  /\ \E m \in Modifiers : DoKeyDown(NoFlags(ModifierKey(m), "div"))

KeyDownPlain ==
  /\ Len(hist) < MaxHistModifier
  /\ DoKeyDown(NoFlags("x", "div"))

KeyDownFlagged ==
  /\ Len(hist) < MaxHistModifier
  /\ \E m \in Modifiers : DoKeyDown(Flagged(m, "x", "div"))

KeyUpModifier ==
  /\ Len(hist) < MaxHistModifier
  /\ \E key \in {"x", "Control", "Shift"} : DoKeyUp(NoFlags(key, "div"))

NextModifier ==
  \/ RegisterModifier
  \/ RegisterSequenceModifier
  \/ KeyDownModifierKey
  \/ KeyDownPlain
  \/ KeyDownFlagged
  \/ KeyUpModifier

SpecModifier == InitModifier /\ [][NextModifier]_vars

\* the state after key-down(modifier key of m) then key-down(x), and after key-down(x)
\* with m's flag, both from the current state
ViaModifierKey(m) ==
  LET first == keyDown(Cur, props, NoFlags(ModifierKey(m), "div"))
      second == keyDown(first, props, NoFlags("x", "div"))
  IN [keysDown |-> second.keysDown, previousKeys |-> second.previousKeys,
      fired |-> first.fired \o second.fired]

ViaFlag(m) ==
  LET only == keyDown(Cur, props, Flagged(m, "x", "div"))
  IN [keysDown |-> only.keysDown, previousKeys |-> only.previousKeys, fired |-> only.fired]

\* C2: from empty heldKeys, key-down of a modifier key followed by key-down(x) ends with
\* the same heldKeys and pendingSequence as one key-down(x) with the modifier's flag
\* set, and a combination binding on 'm+x' is invoked exactly once either way
C2_ModifierKeyEqualsFlag ==
  (keysDown = <<>> /\ isEnabled) =>
    \A m \in Modifiers :
      /\ ViaModifierKey(m).keysDown = ViaFlag(m).keysDown
      /\ ViaModifierKey(m).previousKeys = ViaFlag(m).previousKeys
      /\ (Join(<<m, "x">>, "+") \in DOMAIN listeners /\ listeners[Join(<<m, "x">>, "+")] = <<"m1">>)
           => (Count(ViaModifierKey(m).fired, "m1") = 1 /\ Count(ViaFlag(m).fired, "m1") = 1)

-----------------------------------------------------------------------------
(* Several bindings on one combination *)

MaxHistMulti == 4

MultiMethods == {"m1", "m2", "m3"}

MultiKeys == {<<"a">>, <<"ctrl", "a">>}

InitMulti == InitWith(DefaultProps)

RegisterMulti ==
  /\ Len(hist) < MaxHistMulti
  /\ \E method \in MultiMethods, key \in MultiKeys : DoRegisterShortcut(method, <<key>>, None)

KeyDownMulti ==
  /\ Len(hist) < MaxHistMulti
  /\ \/ \E key \in {"a", "b"} : DoKeyDown(NoFlags(key, "div"))
     \/ DoKeyDown(Flagged("ctrl", "a", "div"))

NextMulti == RegisterMulti \/ KeyDownMulti

SpecMulti == InitMulti /\ [][NextMulti]_vars

\* the callbacks registered by hist[i..j] on the combination string, oldest first
RECURSIVE RegisteredOn(_, _, _)
RegisteredOn(keyPress, i, j) ==
  IF i > j THEN <<>>
  ELSE (IF hist[i].op = "registerShortcut" /\ RawString(hist[i].arg.keys[1]) = keyPress
        THEN <<hist[i].arg.method>> ELSE <<>>)
       \o RegisteredOn(keyPress, i + 1, j)

\* C3: a processed key-down invokes, before it returns, the callbacks of all combination
\* bindings registered on the combination it produces, once each in registration order
C3_AllInRegistrationOrder ==
  (Len(hist) > 0 /\ Last.op = "keyDown" /\ Last.ran) =>
    fired = RegisteredOn(Join(keysDown, "+"), 1, Len(hist) - 1)

C3_Witness ==
  /\ Len(hist) = 4
  /\ Last.op = "keyDown"
  /\ keysDown = <<"ctrl", "a">>
  /\ fired = <<"m2", "m3", "m1">>

-----------------------------------------------------------------------------
(* Key normalisation at the control surface *)

MaxHistNorm == 3

NormKeys ==
  {<<"cTrL", "C">>, <<"control", "c">>, <<"ctrl", "c">>, <<"opt", "s">>, <<"option", "s">>,
   <<"cmd", "x">>, <<"command", "x">>, <<"K">>}

NormLookups == {<<"cTrL", "C">>, <<"control", "c">>, <<"command", "x">>, <<"alt", "s">>, <<"k">>}

\* the canonical string the key specifications stand for, written out
Canonical(rawKeys) ==
  CASE rawKeys \in {<<"cTrL", "C">>, <<"control", "c">>, <<"ctrl", "c">>} -> "ctrl+c"
    [] rawKeys \in {<<"opt", "s">>, <<"option", "s">>, <<"alt", "s">>} -> "alt+s"
    [] rawKeys \in {<<"cmd", "x">>, <<"command", "x">>} -> "meta+x"
    [] rawKeys \in {<<"K">>, <<"k">>} -> "k"

CanonicalKeys == {"ctrl+c", "alt+s", "meta+x", "k"}

InitNorm == InitWith(DefaultProps)

RegisterNorm ==
  /\ Len(hist) < MaxHistNorm
  /\ \E key \in NormKeys : DoRegisterShortcut("m1", <<key>>, None)

UnregisterNorm ==
  /\ Len(hist) < MaxHistNorm
  /\ \E key \in NormLookups : DoUnregisterShortcut(<<key>>, FALSE)

TriggerNorm ==
  /\ Len(hist) < MaxHistNorm
  /\ \E key \in NormLookups : DoTriggerShortcut(key)

NextNorm == RegisterNorm \/ UnregisterNorm \/ TriggerNorm

SpecNorm == InitNorm /\ [][NextNorm]_vars

\* how many listeners the registrations and unregistrations hist[1..n] leave on the
\* canonical string
RECURSIVE ListenersLeft(_, _)
ListenersLeft(canonical, n) ==
  IF n = 0 THEN 0
  ELSE LET before == ListenersLeft(canonical, n - 1)
           entry == hist[n]
       IN IF entry.op = "registerShortcut" /\ Canonical(entry.arg.keys[1]) = canonical
          THEN before + 1
          ELSE IF entry.op = "unregisterShortcut" /\ Canonical(entry.arg.keys[1]) = canonical
                  /\ before > 0
          THEN before - 1
          ELSE before

\* C4: registerShortcut stores, and unregisterShortcut and triggerShortcut look up, a key
\* in its canonical form only: lower case, opt/option as alt, control as ctrl,
\* cmd/command as meta, the tokens in their order
C4_CanonicalForm ==
  /\ DOMAIN listeners \subseteq CanonicalKeys
  /\ \A canonical \in CanonicalKeys :
       (IF canonical \in DOMAIN listeners THEN Len(listeners[canonical]) ELSE 0)
         = ListenersLeft(canonical, Len(hist))
  /\ \A i \in 1..Len(shortcuts) : \A k \in 1..Len(shortcuts[i].keys) :
       shortcuts[i].keys[k] \in CanonicalKeys
  /\ (Len(hist) > 0 /\ Last.op = "triggerShortcut") =>
       Len(fired) = ListenersLeft(Canonical(Last.arg), Len(hist))

C4_Witness ==
  /\ Len(hist) = 3
  /\ hist[1].op = "registerShortcut" /\ hist[1].arg.keys = <<(<<"cTrL", "C">>)>>
  /\ hist[2].op = "registerShortcut" /\ hist[2].arg.keys = <<(<<"ctrl", "c">>)>>
  /\ hist[3].op = "triggerShortcut" /\ hist[3].arg = <<"control", "c">>
  /\ fired = <<"m1", "m1">>

-----------------------------------------------------------------------------
(* Holding one key *)

MaxHistHold == 5

HoldDurations == {0, 250, 1000}

AdvanceSteps == {1, 3, 10}

InitHold == InitWith(DefaultProps)

RegisterHold ==
  /\ Len(hist) < MaxHistHold
  /\ \E duration \in HoldDurations : DoRegisterShortcut("m1", <<(<<"f">>)>>, Some(duration))

KeyDownHold ==
  /\ Len(hist) < MaxHistHold
  /\ DoKeyDown(NoFlags("f", "div"))

KeyUpHold ==
  /\ Len(hist) < MaxHistHold
  /\ DoKeyUp(NoFlags("f", "div"))

AdvanceHold ==
  /\ Len(hist) < MaxHistHold
  /\ \E n \in AdvanceSteps : DoAdvanceTimers(n)

NextHold == RegisterHold \/ KeyDownHold \/ KeyUpHold \/ AdvanceHold

SpecHold == InitHold /\ [][NextHold]_vars

\* the run is registerShortcut(m1, [f], D), key-down(f), then only time passing
HoldCase ==
  /\ Len(hist) >= 2
  /\ hist[1].op = "registerShortcut"
  /\ hist[2].op = "keyDown"
  /\ \A i \in 3..Len(hist) : hist[i].op = "advanceTimers"

\* the ms that passed during hist[i..j]
RECURSIVE Elapsed(_, _)
Elapsed(i, j) ==
  IF i > j THEN 0
  ELSE (IF hist[i].op = "advanceTimers" THEN hist[i].arg * TickMs ELSE 0) + Elapsed(i + 1, j)

\* the first tick that finds the accumulator at D or more comes one period after the
\* accumulator reached D
FirstHoldFire(duration) == (((duration + TickMs - 1) \div TickMs) + 1) * TickMs

\* C5: pressed alone from the initial state and kept held, a key with a hold binding of
\* duration D invokes the callback neither at the key-down nor on a tick before D ms
\* have passed, and exactly once in total however long the key stays held
C5_HoldOnce ==
  HoldCase =>
    LET duration == Val(hist[1].arg.holdDuration)
        elapsed == Elapsed(3, Len(hist))
    IN /\ hist[2].fired = <<>>
       /\ elapsed < duration => Calls("m1", 1, Len(hist)) = 0
       /\ Calls("m1", 1, Len(hist)) = IF elapsed >= FirstHoldFire(duration) THEN 1 ELSE 0

C5_Witness ==
  /\ HoldCase
  /\ Len(hist) = 4
  /\ hist[1].arg.holdDuration = Some(1000)
  /\ Elapsed(3, 4) = 2000
  /\ hist[3].fired = <<>>
  /\ hist[4].fired = <<"m1">>

-----------------------------------------------------------------------------
(* Sequences *)

MaxHistSeq == 5

SeqKeys == {<<"a">>, <<"a", "b">>, <<"b", "a", "b">>}

SeqAdvanceSteps == {2, 20}

SeqProps == {DefaultProps, [DefaultProps EXCEPT !.sequenceTimeout = Some(300)]}

\* a sequence of keys as the key list registerSequenceShortcut takes
AsKeyList(keys) == [i \in 1..Len(keys) |-> <<keys[i]>>]

InitSeq == \E p \in SeqProps : InitWith(p)

RegisterSeq ==
  /\ Len(hist) < MaxHistSeq
  /\ \E keys \in SeqKeys : DoRegisterSequenceShortcut("s1", AsKeyList(keys))

KeyDownSeq ==
  /\ Len(hist) < MaxHistSeq
  /\ \E key \in {"a", "b"} : DoKeyDown(NoFlags(key, "div"))

KeyUpSeq ==
  /\ Len(hist) < MaxHistSeq
  /\ \E key \in {"a", "b"} : DoKeyUp(NoFlags(key, "div"))

AdvanceSeq ==
  /\ Len(hist) < MaxHistSeq
  /\ \E n \in SeqAdvanceSteps : DoAdvanceTimers(n)

NextSeq == RegisterSeq \/ KeyDownSeq \/ KeyUpSeq \/ AdvanceSeq

SpecSeq == InitSeq /\ [][NextSeq]_vars

\* the callbacks invoked by each key-down when the keys are delivered from state s as
\* key-down/key-up pairs, gap ticks apart
RECURSIVE Deliver(_, _, _, _)
Deliver(s, keys, gap, invoked) ==
  IF Len(keys) = 0 THEN invoked
  ELSE LET down == keyDown(s, props, NoFlags(Head(keys), "div"))
           up == keyUp(down, NoFlags(Head(keys), "div"))
           later == advanceTimers(up, gap)
       IN IF later.holdTimer >= 0
          THEN Deliver(later, Tail(keys), gap, Append(invoked, down.fired))
          ELSE invoked

\* gaps, in ticks, shorter than the sequence timeout: none, one tick, and the longest
ShortGaps == {0, 1, ((SequenceTimeoutOf(props) - 1) \div TickMs)}

\* no proper prefix of the keys is a registered sequence, which would match first
NoPrefixRegistered(keys) ==
  \A n \in 1..(Len(keys) - 1) : Join(SubSeq(keys, 1, n), ",") \notin DOMAIN sequenceListeners

RECURSIVE LastProcessed(_)
LastProcessed(n) ==
  IF n = 0 THEN 0
  ELSE IF hist[n].op = "keyDown" /\ hist[n].ran THEN n
  ELSE LastProcessed(n - 1)

\* C7: once the sequence timeout (2000 ms, or the configured sequenceTimeout) has passed
\* since the last processed key-down, pendingSequence is empty; until then the timeout
\* is pending with what is left of a window that began at that key-down
C7_SequenceWindow ==
  LET n == LastProcessed(Len(hist))
      elapsed == Elapsed(n + 1, Len(hist))
      timeout == IF props.sequenceTimeout = None THEN 2000 ELSE Val(props.sequenceTimeout)
  IN IF n = 0 \/ elapsed >= timeout
     THEN previousKeys = <<>> /\ sequenceTimer = None
     ELSE sequenceTimer = Some(timeout - elapsed)

C7_Witness ==
  /\ Len(hist) = 5
  /\ props.sequenceTimeout = Some(300)
  /\ hist[1].op = "keyDown" /\ hist[1].ran
  /\ hist[2].op = "advanceTimers" /\ hist[2].arg = 2
  /\ hist[3].op = "keyDown" /\ hist[3].ran
  /\ hist[4].op = "advanceTimers" /\ hist[4].arg = 2
  /\ hist[5].op = "advanceTimers" /\ hist[5].arg = 2
  /\ previousKeys = <<>>

\* C8: immediately after a key-down that matched a registered sequence, pendingSequence
\* is empty
C8_EmptyAfterMatch ==
  (Len(hist) > 0 /\ Last.op = "keyDown" /\ Count(fired, "s1") > 0) => previousKeys = <<>>

-----------------------------------------------------------------------------
(* Gating: the enabled flag and the ignored tag names *)

MaxHistGate == 4

GateProps == {DefaultProps, [DefaultProps EXCEPT !.ignoreTagNames = Some(<<"TextArea">>)]}

GateTags == {"div", "INPUT", "textarea"}

GateKey == <<(<<"a">>)>>

InitGate == \E p \in GateProps : InitWith(p)

SetEnabledGate ==
  /\ Len(hist) < MaxHistGate
  /\ \E enabled \in BOOLEAN : DoSetEnabled(enabled)

RegisterGate ==
  /\ Len(hist) < MaxHistGate
  /\ DoRegisterShortcut("m1", GateKey, None)

RegisterSequenceGate ==
  /\ Len(hist) < MaxHistGate
  /\ DoRegisterSequenceShortcut("s1", GateKey)

UnregisterGate ==
  /\ Len(hist) < MaxHistGate
  /\ DoUnregisterShortcut(GateKey, FALSE)

KeyDownGate ==
  /\ Len(hist) < MaxHistGate
  /\ \E key \in {"a", "b"}, tagName \in GateTags : DoKeyDown(NoFlags(key, tagName))

KeyUpGate ==
  /\ Len(hist) < MaxHistGate
  /\ DoKeyUp(NoFlags("a", "div"))

AdvanceGate ==
  /\ Len(hist) < MaxHistGate
  /\ DoAdvanceTimers(1)

NextGate ==
  \/ SetEnabledGate \/ RegisterGate \/ RegisterSequenceGate \/ UnregisterGate
  \/ KeyDownGate \/ KeyUpGate \/ AdvanceGate

SpecGate == InitGate /\ [][NextGate]_vars

\* the step is a run of the handler op
Runs(op) == Len(hist') = Len(hist) + 1 /\ hist'[Len(hist')].op = op

\* the step invokes no callback and leaves heldKeys, pendingSequence and the timers alone
Inert ==
  /\ fired' = <<>>
  /\ UNCHANGED <<keysDown, previousKeys, holdInterval, holdTimer, sequenceTimer>>

\* C9: while the engine is disabled a key-down invokes no callback and leaves heldKeys,
\* pendingSequence and both timers unchanged; setEnabled sets the flag and changes neither
\* the bindings nor a listener map; registerShortcut and unregisterShortcut called while
\* disabled add, and remove, the listener and the binding
C9_DisabledKeyDownInert ==
  [][/\ (~isEnabled /\ Runs("keyDown")) => (Inert /\ ~isEnabled')
     /\ Runs("setEnabled") =>
          /\ isEnabled' = hist'[Len(hist')].arg
          /\ UNCHANGED <<listeners, holdListeners, holdDurations, sequenceListeners,
                         shortcuts>>
     /\ (~isEnabled /\ Runs("registerShortcut")) =>
          /\ listeners'["a"] = (IF "a" \in DOMAIN listeners THEN listeners["a"] ELSE <<>>)
                                 \o <<"m1">>
          /\ Len(shortcuts') = Len(shortcuts) + 1
          /\ shortcuts'[Len(shortcuts')].method = "m1"
     /\ (~isEnabled /\ Runs("unregisterShortcut") /\ "a" \in DOMAIN listeners) =>
          /\ Len(listeners["a"]) = 1 => "a" \notin DOMAIN listeners'
          /\ Len(listeners["a"]) > 1 =>
               listeners'["a"] = SubSeq(listeners["a"], 1, Len(listeners["a"]) - 1)
          /\ \A i \in 1..Len(shortcuts') : shortcuts'[i].keys # <<"a">>
    ]_vars

C9_Witness ==
  /\ Len(hist) = 4
  /\ hist[1].op = "keyDown" /\ hist[1].arg.key = "b" /\ hist[1].ran
  /\ hist[2].op = "setEnabled" /\ hist[2].arg = FALSE
  /\ hist[3].op = "registerShortcut"
  /\ hist[4].op = "keyDown" /\ hist[4].arg.key = "a" /\ hist[4].arg.tagName = "div"
  /\ ~hist[4].ran /\ hist[4].fired = <<>>
  /\ "a" \in DOMAIN listeners /\ keysDown = <<"b">> /\ ~isEnabled

\* the tag name is, up to letter case, input or one of the configured ignoreTagNames
IgnoredTag(tagName) ==
  \/ ToLowerCase(tagName) = "input"
  \/ /\ props.ignoreTagNames # None
     /\ \E i \in 1..Len(Val(props.ignoreTagNames)) :
          ToLowerCase(Val(props.ignoreTagNames)[i]) = ToLowerCase(tagName)

\* C10: a key-down whose target tag name is, up to letter case, input or one of the
\* configured ignoreTagNames invokes no callback and leaves heldKeys, pendingSequence and
\* both timers unchanged, whatever ignoreTagNames is configured
C10_IgnoredTagInert ==
  [][(Runs("keyDown") /\ IgnoredTag(hist'[Len(hist')].arg.tagName)) => Inert]_vars

C10_Witness ==
  /\ Len(hist) = 4
  /\ props.ignoreTagNames = Some(<<"TextArea">>)
  /\ hist[1].op = "registerShortcut"
  /\ hist[2].op = "keyDown" /\ hist[2].arg.key = "b" /\ hist[2].ran
  /\ hist[3].op = "keyDown" /\ hist[3].arg.key = "a" /\ hist[3].arg.tagName = "INPUT"
  /\ ~hist[3].ran /\ hist[3].fired = <<>>
  /\ hist[4].op = "keyDown" /\ hist[4].arg.key = "a" /\ hist[4].arg.tagName = "textarea"
  /\ ~hist[4].ran /\ hist[4].fired = <<>>
  /\ keysDown = <<"b">> /\ isEnabled

-----------------------------------------------------------------------------
(* Release: a key-down and the key-up of the same key *)

MaxHistRelease == 2

ReleaseKeys == {"Control", "Alt", "Meta", "Shift", "x"}

ReleaseIgnoreKeys == {None, Some(<<"ctrl">>), Some(<<"cmd">>), Some(<<"shift", "x">>)}

ReleaseEvents ==
  {Event(key, c, a, m, h, "div") : key \in ReleaseKeys, c \in BOOLEAN, a \in BOOLEAN,
                                   m \in BOOLEAN, h \in BOOLEAN}

InitRelease == \E ignoreKeys \in ReleaseIgnoreKeys :
  InitWith([DefaultProps EXCEPT !.ignoreKeys = ignoreKeys])

KeyDownRelease ==
  /\ Len(hist) < MaxHistRelease
  /\ \E e \in ReleaseEvents : DoKeyDown(e)

\* the key of the last key-down is released, the flags as they were
KeyUpRelease ==
  /\ Len(hist) < MaxHistRelease
  /\ Len(hist) > 0 /\ Last.op = "keyDown"
  /\ DoKeyUp(Last.arg)

NextRelease == KeyDownRelease \/ KeyUpRelease

SpecRelease == InitRelease /\ [][NextRelease]_vars

\* C11: a key-down from empty heldKeys followed by the key-up of the same key with the
\* same flags leaves heldKeys empty, for every key, modifier flags and ignoreKeys
C11_ReleaseEmptiesHeldKeys ==
  (Len(hist) = 2 /\ hist[1].op = "keyDown" /\ hist[2].op = "keyUp"
   /\ hist[1].arg = hist[2].arg) => keysDown = <<>>

-----------------------------------------------------------------------------
(* Auto-repeat: a key-down for a key that is already held *)

MaxHistRepeat == 3

RepeatBindings == {<<"ctrl">>, <<"x">>, <<"ctrl", "x">>}

RepeatEvents ==
  {NoFlags("Control", "div"), NoFlags("Shift", "div"), NoFlags("x", "div"),
   Flagged("ctrl", "x", "div"), Flagged("ctrl", "Control", "div")}

InitRepeat == InitWith(DefaultProps)

RegisterRepeat ==
  /\ Len(hist) < MaxHistRepeat
  /\ \E key \in RepeatBindings : DoRegisterShortcut("m1", <<key>>, None)

KeyDownRepeat ==
  /\ Len(hist) < MaxHistRepeat
  /\ \E e \in RepeatEvents : DoKeyDown(e)

KeyUpRepeat ==
  /\ Len(hist) < MaxHistRepeat
  /\ \E e \in RepeatEvents : DoKeyUp(e)

NextRepeat == RegisterRepeat \/ KeyDownRepeat \/ KeyUpRepeat

SpecRepeat == InitRepeat /\ [][NextRepeat]_vars

\* the token heldKeys keeps for a key while it is held
HeldToken(key) == IF ToLowerCase(key) = "control" THEN "ctrl" ELSE ToLowerCase(key)

NoTokenTwice(keys) == \A i, j \in 1..Len(keys) : keys[i] = keys[j] => i = j

\* C12: a key-down for a key whose token is already in heldKeys, a held modifier key
\* included, invokes no callback, and heldKeys never contains a token twice
C12_RepeatInvokesNothing ==
  [][/\ (Runs("keyDown") /\ Has(keysDown, HeldToken(hist'[Len(hist')].arg.key))) =>
          fired' = <<>>
     /\ NoTokenTwice(keysDown')
    ]_vars

-----------------------------------------------------------------------------
(* Cancelling a hold: key-up and focus lost *)

MaxHistCancel == 5

CancelDurations == {0, 200}

CancelDownEvents == {NoFlags("f", "div"), NoFlags("Shift", "div"), NoFlags("f", "INPUT")}

CancelUpEvents == {NoFlags("f", "div"), NoFlags("Shift", "div"), NoFlags("x", "div")}

InitCancel == InitWith(DefaultProps)

RegisterCancel ==
  /\ Len(hist) < MaxHistCancel
  /\ \E duration \in CancelDurations : DoRegisterShortcut("h1", <<(<<"f">>)>>, Some(duration))

KeyDownCancel ==
  /\ Len(hist) < MaxHistCancel
  /\ \E e \in CancelDownEvents : DoKeyDown(e)

KeyUpCancel ==
  /\ Len(hist) < MaxHistCancel
  /\ \E e \in CancelUpEvents : DoKeyUp(e)

AdvanceCancel ==
  /\ Len(hist) < MaxHistCancel
  /\ \E n \in {1, 3} : DoAdvanceTimers(n)

WindowBlurCancel ==
  /\ Len(hist) < MaxHistCancel
  /\ DoWindowBlur

NextCancel ==
  RegisterCancel \/ KeyDownCancel \/ KeyUpCancel \/ AdvanceCancel \/ WindowBlurCancel

SpecCancel == InitCancel /\ [][NextCancel]_vars

\* no key-down is processed by the entries i..j of hist
NoneProcessed(i, j) == \A k \in i..j : ~(hist[k].op = "keyDown" /\ hist[k].ran)

\* C13: after a key-up, whichever key it releases, no hold callback is invoked until
\* another key-down is processed
C13_KeyUpCancelsHold ==
  \A i \in 1..Len(hist) :
    hist[i].op = "keyUp" =>
      \A j \in i..Len(hist) : NoneProcessed(i + 1, j) => Count(hist[j].fired, "h1") = 0

C13_Witness ==
  /\ Len(hist) = 5
  /\ hist[1].op = "registerShortcut" /\ hist[1].arg.holdDuration = Some(200)
  /\ hist[2].op = "keyDown" /\ hist[2].arg = NoFlags("f", "div") /\ hist[2].ran
  /\ hist[3].op = "advanceTimers" /\ hist[3].arg = 1
  /\ hist[4].op = "keyUp" /\ hist[4].arg = NoFlags("Shift", "div")
  /\ hist[5].op = "advanceTimers" /\ hist[5].arg = 3 /\ hist[5].fired = <<>>
  /\ keysDown = <<"f">>

\* C14: a focus-lost event empties heldKeys and stops the hold tick, leaving
\* pendingSequence, the sequence timeout, the enabled flag, the bindings and the listener
\* maps unchanged; no hold callback is invoked after it until a key-down is processed
C14_BlurClearsHeldKeys ==
  /\ [][Runs("windowBlur") =>
          /\ keysDown' = <<>>
          /\ holdInterval' = None
          /\ fired' = <<>>
          /\ UNCHANGED <<previousKeys, sequenceTimer, isEnabled, shortcuts, listeners,
                         holdListeners, holdDurations, sequenceListeners>>
       ]_vars
  /\ [](\A i \in 1..Len(hist) :
          hist[i].op = "windowBlur" =>
            \A j \in i..Len(hist) :
              NoneProcessed(i + 1, j) => Count(hist[j].fired, "h1") = 0)

C14_Witness ==
  /\ Len(hist) = 5
  /\ hist[1].op = "registerShortcut" /\ hist[1].arg.holdDuration = Some(200)
  /\ hist[2].op = "keyDown" /\ hist[2].arg = NoFlags("f", "div") /\ hist[2].ran
  /\ hist[3].op = "advanceTimers" /\ hist[3].arg = 1
  /\ hist[4].op = "windowBlur"
  /\ hist[5].op = "advanceTimers" /\ hist[5].arg = 3 /\ hist[5].fired = <<>>
  /\ keysDown = <<>> /\ previousKeys = <<"f">> /\ IsDefined(sequenceTimer)

-----------------------------------------------------------------------------
(* Registry: registering and unregistering combination bindings *)

MaxHistRegistry == 5

RegistryKeys == {"k", "j"}

RegistryMethods == {"m1", "m2"}

InitRegistry == InitWith(DefaultProps)

RegisterRegistry ==
  /\ Len(hist) < MaxHistRegistry
  /\ \E method \in RegistryMethods, key \in RegistryKeys :
       DoRegisterShortcut(method, <<(<<key>>)>>, None)

UnregisterRegistry ==
  /\ Len(hist) < MaxHistRegistry
  /\ \E key \in RegistryKeys : DoUnregisterShortcut(<<(<<key>>)>>, FALSE)

KeyDownRegistry ==
  /\ Len(hist) < MaxHistRegistry
  /\ \E key \in RegistryKeys : DoKeyDown(NoFlags(key, "div"))

KeyUpRegistry ==
  /\ Len(hist) < MaxHistRegistry
  /\ DoKeyUp(NoFlags("k", "div"))

NextRegistry == RegisterRegistry \/ UnregisterRegistry \/ KeyDownRegistry \/ KeyUpRegistry

SpecRegistry == InitRegistry /\ [][NextRegistry]_vars

\* hist[i] is registerShortcut(method, [key])
IsRegister(i, method, key) ==
  /\ hist[i].op = "registerShortcut"
  /\ hist[i].arg.method = method /\ hist[i].arg.keys = <<(<<key>>)>>

\* hist[i] is unregisterShortcut([key])
IsUnregister(i, key) ==
  hist[i].op = "unregisterShortcut" /\ hist[i].arg.keys = <<(<<key>>)>>

\* no entry before hist[i] registers on key
NoPriorRegistration(i, key) ==
  \A n \in 1..(i - 1) : ~(hist[n].op = "registerShortcut" /\ hist[n].arg.keys = <<(<<key>>)>>)

\* the callbacks of the bindings listed for exactly the key, in list order
BindingsOn(key) ==
  LET OnKey(shortcut) == shortcut.keys = <<key>>
      MethodOf(shortcut) == shortcut.method
  IN MapSeq(Filter(shortcuts, OnKey), MethodOf)

\* C15: for a key with no prior registration, register, unregister, register again
\* leaves exactly one binding for the key and the one listener, and a key-down of the
\* key that follows invokes the callback exactly once
C15_ReRegistration ==
  \A i \in 1..Len(hist), key \in RegistryKeys, cb \in RegistryMethods :
    (/\ i + 2 <= Len(hist)
     /\ NoPriorRegistration(i, key)
     /\ IsRegister(i, cb, key) /\ IsUnregister(i + 1, key) /\ IsRegister(i + 2, cb, key)) =>
      /\ Len(hist) = i + 2 =>
           (BindingsOn(key) = <<cb>> /\ key \in DOMAIN listeners /\ listeners[key] = <<cb>>)
      /\ (Len(hist) = i + 3 /\ hist[i + 3].op = "keyDown" /\ hist[i + 3].arg.key = key
          /\ hist[i + 3].held = <<>>) => hist[i + 3].fired = <<cb>>

C15_Witness ==
  /\ Len(hist) = 5
  /\ IsRegister(1, "m2", "j")
  /\ IsRegister(2, "m1", "k") /\ IsUnregister(3, "k") /\ IsRegister(4, "m1", "k")
  /\ hist[5].op = "keyDown" /\ hist[5].arg.key = "k" /\ hist[5].fired = <<"m1">>
  /\ BindingsOn("k") = <<"m1">> /\ BindingsOn("j") = <<"m2">>

\* C16: with m1 then m2 registered on the same key, one unregisterShortcut of the key
\* removes only the binding added last: the bindings list keeps the first binding and the
\* key's listeners are the first callback
C16_UnregisterRemovesLast ==
  \A key \in RegistryKeys :
    (/\ Len(hist) = 3
     /\ IsRegister(1, "m1", key) /\ IsRegister(2, "m2", key) /\ IsUnregister(3, key)) =>
      (BindingsOn(key) = <<"m1">> /\ key \in DOMAIN listeners /\ listeners[key] = <<"m1">>)

-----------------------------------------------------------------------------
(* Sequence registry: registering and unregistering sequence bindings *)

MaxHistSeqRegistry == 4

SeqRegistryKeys == {<<"a", "b">>, <<"A", "b">>, <<"cmd", "x">>}

SeqRegistryMethods == {"s1", "s2"}

InitSeqRegistry == InitWith(DefaultProps)

RegisterSeqRegistry ==
  /\ Len(hist) < MaxHistSeqRegistry
  /\ \E method \in SeqRegistryMethods, keys \in SeqRegistryKeys :
       DoRegisterSequenceShortcut(method, AsKeyList(keys))

RegisterCombinationSeqRegistry ==
  /\ Len(hist) < MaxHistSeqRegistry
  /\ DoRegisterShortcut("m1", <<(<<"a">>)>>, None)

UnregisterSeqRegistry ==
  /\ Len(hist) < MaxHistSeqRegistry
  /\ \E keys \in SeqRegistryKeys, sequence \in BOOLEAN :
       DoUnregisterShortcut(AsKeyList(keys), sequence)

KeyDownSeqRegistry ==
  /\ Len(hist) < MaxHistSeqRegistry
  /\ \E key \in {"a", "b"} : DoKeyDown(NoFlags(key, "div"))

KeyUpSeqRegistry ==
  /\ Len(hist) < MaxHistSeqRegistry
  /\ \E key \in {"a", "b"} : DoKeyUp(NoFlags(key, "div"))

NextSeqRegistry ==
  \/ RegisterSeqRegistry \/ RegisterCombinationSeqRegistry \/ UnregisterSeqRegistry
  \/ KeyDownSeqRegistry \/ KeyUpSeqRegistry

SpecSeqRegistry == InitSeqRegistry /\ [][NextSeqRegistry]_vars

\* hist[i] is registerSequenceShortcut(method, keys)
IsRegisterSequence(i, method, keys) ==
  /\ hist[i].op = "registerSequenceShortcut"
  /\ hist[i].arg.method = method /\ hist[i].arg.keys = AsKeyList(keys)

\* hist[i] is unregisterShortcut(keys, sequence)
IsUnregisterSequence(i, keys, sequence) ==
  /\ hist[i].op = "unregisterShortcut"
  /\ hist[i].arg.keys = AsKeyList(keys) /\ hist[i].arg.sequence = sequence

\* a binding with exactly these keys is listed
Listed(keys) == \E n \in 1..Len(shortcuts) : shortcuts[n].keys = keys

\* C17: after registerSequenceShortcut(cb, ks) and unregisterShortcut(ks) with no
\* sequence flag, the binding is not listed, the sequence has no listener and the keys
\* delivered in order do not invoke cb
C17_UnregisterWithoutFlag ==
  \A cb \in SeqRegistryMethods, keys \in SeqRegistryKeys :
    (/\ Len(hist) = 2
     /\ IsRegisterSequence(1, cb, keys) /\ IsUnregisterSequence(2, keys, FALSE)) =>
      /\ ~Listed(keys)
      /\ SequenceKeyEvent(AsKeyList(keys)) \notin DOMAIN sequenceListeners
      /\ LET invoked == Deliver(Cur, keys, 0, <<>>)
         IN \A j \in 1..Len(invoked) : Count(invoked[j], cb) = 0

\* C18: registerSequenceShortcut(cb, ks) followed by unregisterShortcut(ks, true)
\* restores sequenceListeners and the bindings list to what they were before, here the
\* empty map and the empty list of the initial state, for every key list
C18_UnregisterRestores ==
  \A cb \in SeqRegistryMethods, keys \in SeqRegistryKeys :
    (/\ Len(hist) = 2
     /\ IsRegisterSequence(1, cb, keys) /\ IsUnregisterSequence(2, keys, TRUE)) =>
      (sequenceListeners = EmptyMap /\ shortcuts = <<>>)

\* none of the keys, in canonical form, has an entry in the combination or hold maps,
\* nor, with the sequence flag, the key list in the sequence map
NoEntry(keys, sequence) ==
  /\ \A i \in 1..Len(keys) :
       LET key == TransformKey(keys[i])
       IN /\ key \notin DOMAIN listeners
          /\ key \notin DOMAIN holdListeners
          /\ key \notin DOMAIN holdDurations
  /\ sequence =>
       /\ Join(transformKeys(keys), ",") \notin DOMAIN sequenceListeners
       /\ SequenceKeyEvent(keys) \notin DOMAIN sequenceListeners

\* C19: unregisterShortcut for keys of which none has an entry in a listener map leaves
\* the bindings list and every listener map unchanged
C19_UnregisterUnknownIsNoOp ==
  [][(Runs("unregisterShortcut")
      /\ NoEntry(hist'[Len(hist')].arg.keys, hist'[Len(hist')].arg.sequence)) =>
       UNCHANGED <<shortcuts, listeners, holdListeners, holdDurations, sequenceListeners>>
    ]_vars

\* the callback of the first registerSequenceShortcut of hist on the joined key
RECURSIVE FirstRegistered(_, _)
FirstRegistered(keyEvent, i) ==
  IF i > Len(hist) THEN None
  ELSE IF hist[i].op = "registerSequenceShortcut"
          /\ SequenceKeyEvent(hist[i].arg.keys) = keyEvent
  THEN Some(hist[i].arg.method)
  ELSE FirstRegistered(keyEvent, i + 1)

\* C20: registerSequenceShortcut with a key list whose lower-cased joined form already
\* has a sequence listener changes neither the bindings list nor a listener map, so
\* (while nothing is unregistered) the listener of a sequence is the callback that was
\* registered first, which is the one a match invokes
C20_DuplicateSequenceIsNoOp ==
  /\ [][(Runs("registerSequenceShortcut")
         /\ SequenceKeyEvent(hist'[Len(hist')].arg.keys) \in DOMAIN sequenceListeners) =>
          UNCHANGED <<shortcuts, listeners, holdListeners, holdDurations,
                      sequenceListeners>>
       ]_vars
  /\ []((\A i \in 1..Len(hist) : hist[i].op # "unregisterShortcut") =>
          /\ \A keyEvent \in DOMAIN sequenceListeners :
               Some(sequenceListeners[keyEvent]) = FirstRegistered(keyEvent, 1)
          /\ \A i \in 1..Len(hist) :
               (hist[i].op = "keyDown" /\ Count(hist[i].fired, "s2") > 0) =>
                 FirstRegistered("a,b", 1) = Some("s2"))

C20_Witness ==
  /\ Len(hist) = 4
  /\ IsRegisterSequence(1, "s1", <<"a", "b">>)
  /\ IsRegisterSequence(2, "s2", <<"A", "b">>)
  /\ hist[3].op = "keyDown" /\ hist[3].arg.key = "a"
  /\ hist[4].op = "keyDown" /\ hist[4].arg.key = "b" /\ hist[4].fired = <<"s1">>
  /\ Len(shortcuts) = 1 /\ sequenceListeners["a,b"] = "s1"

-----------------------------------------------------------------------------
(* Programmatic trigger *)

MaxHistTrigger == 4

TriggerProps ==
  {DefaultProps,
   [DefaultProps EXCEPT !.ignoreKeys = Some(<<"k", "ctrl">>),
                        !.ignoreTagNames = Some(<<"DIV">>)]}

TriggerBindings == {<<"k">>, <<"ctrl", "c">>}

TriggerRawKeys == {<<"K">>, <<"k">>, <<"control", "c">>, <<"cTrL", "C">>, <<"x">>}

\* the canonical string of a raw key, written out
TriggerCanonical(rawKey) ==
  CASE rawKey \in {<<"K">>, <<"k">>} -> "k"
    [] rawKey \in {<<"control", "c">>, <<"cTrL", "C">>} -> "ctrl+c"
    [] rawKey = <<"x">> -> "x"

InitTrigger == \E p \in TriggerProps : InitWith(p)

RegisterTrigger ==
  /\ Len(hist) < MaxHistTrigger
  /\ \E method \in {"m1", "m2"}, key \in TriggerBindings :
       DoRegisterShortcut(method, <<key>>, None)

KeyDownTrigger ==
  /\ Len(hist) < MaxHistTrigger
  /\ \E key \in {"k", "x"} : DoKeyDown(NoFlags(key, "span"))

SetEnabledTrigger ==
  /\ Len(hist) < MaxHistTrigger
  /\ DoSetEnabled(FALSE)

TriggerTrigger ==
  /\ Len(hist) < MaxHistTrigger
  /\ \E rawKey \in TriggerRawKeys : DoTriggerShortcut(rawKey)

NextTrigger == RegisterTrigger \/ KeyDownTrigger \/ SetEnabledTrigger \/ TriggerTrigger

SpecTrigger == InitTrigger /\ [][NextTrigger]_vars

\* C21: triggerShortcut(rawKey) invokes exactly the callbacks registered on the
\* canonical form of rawKey, once each in registration order (none when there is no
\* entry), whatever the ignore lists, the enabled flag and the held keys, and changes
\* no engine state
C21_TriggerInvokesListeners ==
  [][Runs("triggerShortcut") =>
       LET canonical == TriggerCanonical(hist'[Len(hist')].arg)
       IN /\ fired' = IF canonical \in DOMAIN listeners THEN listeners[canonical] ELSE <<>>
          /\ fired' = RegisteredOn(canonical, 1, Len(hist))
          /\ ~threw'
          /\ UNCHANGED <<isEnabled, keysDown, previousKeys, holdInterval, holdTimer,
                         sequenceTimer, shortcuts, listeners, holdListeners,
                         holdDurations, sequenceListeners>>
    ]_vars

C21_Witness ==
  /\ Len(hist) = 4
  /\ IsDefined(props.ignoreKeys)
  /\ hist[1].op = "registerShortcut" /\ hist[1].arg.method = "m2"
  /\ hist[1].arg.keys = <<(<<"ctrl", "c">>)>>
  /\ hist[2].op = "registerShortcut" /\ hist[2].arg.method = "m1"
  /\ hist[2].arg.keys = <<(<<"ctrl", "c">>)>>
  /\ hist[3].op = "keyDown" /\ hist[3].arg.key = "x" /\ hist[3].ran
  /\ hist[4].op = "triggerShortcut" /\ hist[4].arg = <<"cTrL", "C">>
  /\ fired = <<"m2", "m1">> /\ keysDown = <<"x">>

-----------------------------------------------------------------------------
(* Ignored keys *)

MaxHistIgnore == 4

IgnoreLists == {<<"ctrl", "z">>, <<"cmd", "z">>, <<"meta", "alt", "shift", "z">>}

InitIgnore == \E ignoreKeys \in IgnoreLists :
  InitWith([DefaultProps EXCEPT !.ignoreKeys = Some(ignoreKeys)])

RegisterIgnore ==
  /\ Len(hist) < MaxHistIgnore
  /\ \E key \in {"x", "a"} : DoRegisterShortcut("m1", <<(<<key>>)>>, None)

RegisterSequenceIgnore ==
  /\ Len(hist) < MaxHistIgnore
  /\ DoRegisterSequenceShortcut("s1", <<(<<"a">>), (<<"x">>)>>)

KeyDownIgnore ==
  /\ Len(hist) < MaxHistIgnore
  /\ \/ \E key \in {"x", "a", "z"} : DoKeyDown(NoFlags(key, "div"))
     \/ \E m \in Modifiers : DoKeyDown(Flagged(m, "x", "div"))

KeyUpIgnore ==
  /\ Len(hist) < MaxHistIgnore
  /\ \E key \in {"x", "a"} : DoKeyUp(NoFlags(key, "div"))

NextIgnore == RegisterIgnore \/ RegisterSequenceIgnore \/ KeyDownIgnore \/ KeyUpIgnore

SpecIgnore == InitIgnore /\ [][NextIgnore]_vars

\* the modifier is listed in ignoreKeys, meta also as cmd
IgnoredModifier(m) ==
  LET ignoreKeys == Val(props.ignoreKeys)
  IN \E i \in 1..Len(ignoreKeys) :
       ignoreKeys[i] = m \/ (m = "meta" /\ ignoreKeys[i] = "cmd")

\* C22: for a modifier listed in ignoreKeys (meta also as cmd), a key-down of x with
\* the modifier's flag set does what the key-down of x without the flag does: it adds
\* no token for the modifier and a binding on plain x is invoked
C22_IgnoredModifierFlag ==
  \A m \in Modifiers :
    IgnoredModifier(m) =>
      /\ keyDown(Cur, props, Flagged(m, "x", "div")) = keyDown(Cur, props, NoFlags("x", "div"))
      /\ ~Has(keysDown, m)
      /\ (Len(hist) > 0 /\ Last.op = "keyDown" /\ Last.arg = Flagged(m, "x", "div")
          /\ Last.held = <<>>) =>
           LET Combination(cb) == cb = "m1"
           IN keysDown = <<"x">> /\ Filter(fired, Combination) = RegisteredOn("x", 1, Len(hist))

C22_Witness ==
  /\ Len(hist) = 2
  /\ props.ignoreKeys = Some(<<"cmd", "z">>)
  /\ hist[1].op = "registerShortcut" /\ hist[1].arg.keys = <<(<<"x">>)>>
  /\ hist[2].op = "keyDown" /\ hist[2].arg = Flagged("meta", "x", "div")
  /\ fired = <<"m1">> /\ keysDown = <<"x">>

\* C23: a key-down with no modifier flag whose key is listed in ignoreKeys invokes no
\* callback and leaves heldKeys and pendingSequence unchanged
C23_IgnoredKeyInert ==
  [][(Runs("keyDown") /\ hist'[Len(hist')].arg = NoFlags("z", "div")) =>
       (fired' = <<>> /\ UNCHANGED <<keysDown, previousKeys>>)
    ]_vars

-----------------------------------------------------------------------------
(* Events without a key *)

MaxHistBlank == 4

BlankKeys == {Undefined, ""}

InitBlank == InitWith(DefaultProps)

RegisterBlank ==
  /\ Len(hist) < MaxHistBlank
  /\ DoRegisterShortcut("h1", <<(<<"f">>)>>, Some(200))

KeyDownBlank ==
  /\ Len(hist) < MaxHistBlank
  /\ \E key \in BlankKeys \cup {"f"} : DoKeyDown(NoFlags(key, "div"))

KeyUpBlank ==
  /\ Len(hist) < MaxHistBlank
  /\ \E key \in BlankKeys \cup {"f"} : DoKeyUp(NoFlags(key, "div"))

AdvanceBlank ==
  /\ Len(hist) < MaxHistBlank
  /\ \E n \in {1, 3} : DoAdvanceTimers(n)

NextBlank == RegisterBlank \/ KeyDownBlank \/ KeyUpBlank \/ AdvanceBlank

SpecBlank == InitBlank /\ [][NextBlank]_vars

\* C24: a key-down or key-up whose key is undefined or empty does not throw, invokes no
\* callback and leaves heldKeys, pendingSequence, the hold tick, its accumulator and the
\* sequence timeout unchanged
C24_BlankKeyIgnored ==
  [][((Runs("keyDown") \/ Runs("keyUp")) /\ hist'[Len(hist')].arg.key \in BlankKeys) =>
       (~threw' /\ Inert)
    ]_vars

-----------------------------------------------------------------------------
(* Holding a combination *)

MaxHistHoldCombo == 4

HoldComboKeys == {<<"f">>, <<"ctrl", "x">>}

HoldComboDurations == {0, 200}

InitHoldCombo == InitWith(DefaultProps)

RegisterHoldCombo ==
  /\ Len(hist) < MaxHistHoldCombo
  /\ \E key \in HoldComboKeys, duration \in HoldComboDurations :
       DoRegisterShortcut("h1", <<key>>, Some(duration))

KeyDownHoldCombo ==
  /\ Len(hist) < MaxHistHoldCombo
  /\ \/ \E key \in {"f", "Shift"} : DoKeyDown(NoFlags(key, "div"))
     \/ DoKeyDown(Flagged("ctrl", "x", "div"))

AdvanceHoldCombo ==
  /\ Len(hist) < MaxHistHoldCombo
  /\ \E n \in {1, 3} : DoAdvanceTimers(n)

NextHoldCombo == RegisterHoldCombo \/ KeyDownHoldCombo \/ AdvanceHoldCombo

SpecHoldCombo == InitHoldCombo /\ [][NextHoldCombo]_vars

\* C25: no handler and no timer callback throws; threw is set by a hold tick that finds
\* the hold duration of a token of the last key-down reached and no hold listener
\* under the combination string
C25_NeverThrows == ~threw

\* C26: with a hold binding on ctrl+x of duration D registered from the initial state
\* and the combination pressed and kept held with no other event, the callback has been
\* invoked once the ticks have covered D ms and the period of the tick that follows
C26_HoldCombinationFires ==
  (/\ HoldCase
   /\ hist[1].arg.keys = <<(<<"ctrl", "x">>)>>
   /\ hist[2].arg = Flagged("ctrl", "x", "div")
   /\ Elapsed(3, Len(hist)) >= FirstHoldFire(Val(hist[1].arg.holdDuration))) =>
    Calls("h1", 2, Len(hist)) = 1

-----------------------------------------------------------------------------
(* Binding ids: registrations read the clock *)

MaxHistIds == 3

\* the clock reading of the last registration, 0 before the first
RECURSIVE LastClock(_)
LastClock(n) ==
  IF n = 0 THEN 0
  ELSE IF hist[n].op \in {"registerShortcut", "registerSequenceShortcut"}
  THEN hist[n].arg.now
  ELSE LastClock(n - 1)

\* Date.now() at a call: the millisecond of the call before, or a later one
ClockReadings == {LastClock(Len(hist)), LastClock(Len(hist)) + 1, LastClock(Len(hist)) + 36}

InitIds == InitWith(DefaultProps)

RegisterIds ==
  /\ Len(hist) < MaxHistIds
  /\ \E method \in {"m1", "m2"}, key \in {"k", "j"}, now \in ClockReadings :
       /\ RegisterShortcut(method, <<(<<key>>)>>, None, now)
       /\ Log("registerShortcut", [method |-> method, keys |-> <<(<<key>>)>>, now |-> now],
              TRUE)

RegisterSequenceIds ==
  /\ Len(hist) < MaxHistIds
  /\ \E keys \in {<<"a", "b">>, <<"b", "a">>}, now \in ClockReadings :
       /\ RegisterSequenceShortcut("s1", AsKeyList(keys), now)
       /\ Log("registerSequenceShortcut", [method |-> "s1", keys |-> keys, now |-> now],
              TRUE)

NextIds == RegisterIds \/ RegisterSequenceIds

SpecIds == InitIds /\ [][NextIds]_vars

\* C27: the ids of the bindings in the bindings list are pairwise distinct, also for
\* bindings registered within the same clock millisecond
C27_DistinctIds ==
  \A i, j \in 1..Len(shortcuts) : shortcuts[i].id = shortcuts[j].id => i = j

-----------------------------------------------------------------------------
\* Chords of plain keys: bindings on k and on j+k, keys j and k pressed and released.

MaxHistChord == 4

ChordMethods == {"m1", "m2"}

ChordKeys == {<<"k">>, <<"j", "k">>}

InitChord == InitWith(DefaultProps)

RegisterChord ==
  /\ Len(hist) < MaxHistChord
  /\ \E method \in ChordMethods, key \in ChordKeys : DoRegisterShortcut(method, <<key>>, None)

KeyDownChord ==
  /\ Len(hist) < MaxHistChord
  /\ \E key \in {"j", "k"} : DoKeyDown(NoFlags(key, "div"))

KeyUpChord ==
  /\ Len(hist) < MaxHistChord
  /\ \E key \in {"j", "k"} : DoKeyUp(NoFlags(key, "div"))

NextChord == RegisterChord \/ KeyDownChord \/ KeyUpChord

SpecChord == InitChord /\ [][NextChord]_vars

\* C28: a processed key-down looks up the '+'-join of the tokens held on entry followed by
\* its own; with j held, key-down(k) invokes the callbacks registered on 'j+k' and none
\* registered on k alone
C28_LooksUpAllHeldTokens ==
  (Len(hist) > 0 /\ Last.op = "keyDown" /\ Last.ran) =>
    /\ fired = RegisteredOn(Join(Last.held \o <<Last.arg.key>>, "+"), 1, Len(hist) - 1)
    /\ (Last.held = <<"j">> /\ Last.arg.key = "k") =>
         \A m \in ChordMethods :
           Has(fired, m) => Has(RegisteredOn("j+k", 1, Len(hist) - 1), m)

C28_Witness ==
  /\ Len(hist) = 4
  /\ hist[1].op = "registerShortcut" /\ hist[1].arg.method = "m1"
  /\ hist[1].arg.keys = <<(<<"k">>)>>
  /\ hist[2].op = "registerShortcut" /\ hist[2].arg.method = "m2"
  /\ hist[2].arg.keys = <<(<<"j", "k">>)>>
  /\ hist[3].op = "keyDown" /\ hist[3].arg.key = "j"
  /\ Last.op = "keyDown" /\ Last.arg.key = "k" /\ Last.ran
  /\ Last.held = <<"j">>
  /\ fired = <<"m2">>

-----------------------------------------------------------------------------
\* Token order: the keys Control, Shift and s pressed and released in any order, each
\* event carrying the modifier flags of the keys physically down at that moment.

MaxHistOrder == 3

OrderKeys == {"Control", "Shift", "s"}

\* whether the key is physically down after the events hist[1..n]
RECURSIVE PhysicallyDown(_, _)
PhysicallyDown(key, n) ==
  IF n = 0 THEN FALSE
  ELSE IF hist[n].op \in {"keyDown", "keyUp"} /\ hist[n].arg.key = key
       THEN hist[n].op = "keyDown"
       ELSE PhysicallyDown(key, n - 1)

\* the KeyboardEvent the browser delivers for the key going down or up
OrderEvent(key, down) ==
  Event(key,
        (key = "Control" /\ down) \/ (key # "Control" /\ PhysicallyDown("Control", Len(hist))),
        FALSE, FALSE,
        (key = "Shift" /\ down) \/ (key # "Shift" /\ PhysicallyDown("Shift", Len(hist))),
        "div")

InitOrder == InitWith(DefaultProps)

KeyDownOrder ==
  /\ Len(hist) < MaxHistOrder
  /\ \E key \in OrderKeys : DoKeyDown(OrderEvent(key, TRUE))

KeyUpOrder ==
  /\ Len(hist) < MaxHistOrder
  /\ \E key \in OrderKeys : DoKeyUp(OrderEvent(key, FALSE))

NextOrder == KeyDownOrder \/ KeyUpOrder

SpecOrder == InitOrder /\ [][NextOrder]_vars

\* the place of a token in the order ctrl, alt, meta, shift, non-modifier
TokenRank(token) ==
  CASE token = "ctrl" -> 1 [] token = "alt" -> 2 [] token = "meta" -> 3
    [] token = "shift" -> 4 [] OTHER -> 5

\* C29: heldKeys always lists its modifier tokens in the order ctrl, alt, meta, shift,
\* and every modifier token before every non-modifier token
C29_CanonicalTokenOrder ==
  \A i, j \in 1..Len(keysDown) : i < j => TokenRank(keysDown[i]) <= TokenRank(keysDown[j])

-----------------------------------------------------------------------------
\* Repeated key-downs carrying modifier flags, under SpecRepeat.

\* the modifier tokens of the event's flags that are not in held, in detection order
ImpliedModifiers(e, held) ==
  LET flag == [t \in Modifiers |->
                 CASE t = "ctrl" -> e.ctrlKey [] t = "alt" -> e.altKey
                   [] t = "meta" -> e.metaKey [] t = "shift" -> e.shiftKey]
  IN SelectSeq(<<"ctrl", "alt", "meta", "shift">>, LAMBDA t : flag[t] /\ ~Has(held, t))

\* the step is a key-down whose lower-cased key is an element of heldKeys
RepeatedKeyDown ==
  /\ Runs("keyDown")
  /\ Has(keysDown, EventKey(hist'[Len(hist')].arg))

\* C30 as stated: a key-down for a key already in heldKeys appends to heldKeys the modifier
\* tokens of its flags that are not yet held, and does nothing else
C30_RepeatAppendsModifiers ==
  [][RepeatedKeyDown =>
       /\ keysDown' = keysDown \o ImpliedModifiers(hist'[Len(hist')].arg, keysDown)
       /\ fired' = <<>>
       /\ UNCHANGED <<previousKeys, holdInterval, holdTimer, sequenceTimer>>]_vars

\* C30, amended: a key-down whose lower-cased key is already in heldKeys changes nothing,
\* whatever its flags: no token is appended, no callback runs, no timer is touched
C30_RepeatIsNoOp ==
  [][RepeatedKeyDown => Inert]_vars

C30_Witness ==
  /\ Len(hist) = 2
  /\ hist[1].op = "keyDown" /\ hist[1].arg = NoFlags("x", "div")
  /\ hist[2].op = "keyDown" /\ hist[2].arg = Flagged("ctrl", "x", "div")
  /\ ~hist[2].ran
  /\ hist[2].held = <<"x">>
  /\ keysDown = <<"x">>

-----------------------------------------------------------------------------
\* Key-downs of the modifier keys themselves, under SpecRelease.

\* the step is a key-down of Control, Alt, Meta or Shift
ModifierKeyDown ==
  /\ Runs("keyDown")
  /\ Has(specialKeys, EventKey(hist'[Len(hist')].arg))

\* C31: a key-down of a modifier key adds nothing to heldKeys but canonical modifier
\* tokens, and does not add the token of its own modifier when ignoreKeys lists it
C31_ModifierKeyNeverMain ==
  [][ModifierKeyDown =>
       LET token == HeldToken(hist'[Len(hist')].arg.key)
       IN /\ \A i \in 1..Len(keysDown') :
               keysDown'[i] \in Modifiers \/ Has(keysDown, keysDown'[i])
          /\ (IsDefined(props.ignoreKeys) /\ IgnoredModifier(token)) =>
               (Has(keysDown', token) => Has(keysDown, token))]_vars

-----------------------------------------------------------------------------
\* What follows a hold callback, under SpecHold.

\* hist[i] is a passage of time during which a hold callback ran
HoldFiredAt(i) == hist[i].op = "advanceTimers" /\ hist[i].fired # <<>>

\* C32 as stated: after a hold callback fires the tick keeps running from zero, and the
\* callback fires again when the hold duration has elapsed once more
C32_TickKeepsRunning ==
  /\ (Len(hist) > 0 /\ HoldFiredAt(Len(hist))) => IsDefined(holdInterval)
  /\ HoldCase =>
       LET duration == Val(hist[1].arg.holdDuration)
       IN Elapsed(3, Len(hist)) >= 2 * FirstHoldFire(duration) =>
            Calls("m1", 1, Len(hist)) >= 2

\* C32, amended: the tick on which a hold callback fires stops the periodic tick, so the
\* callback runs once and not again, however long the keys stay held, until another
\* key-down is processed
C32_HoldFireStopsTick ==
  /\ (Len(hist) > 0 /\ HoldFiredAt(Len(hist))) => ~IsDefined(holdInterval)
  /\ \A i \in 1..Len(hist) : hist[i].op = "advanceTimers" => Len(hist[i].fired) <= 1
  /\ \A i, j \in 1..Len(hist) :
       (i < j /\ HoldFiredAt(i) /\ HoldFiredAt(j)) =>
         \E k \in (i + 1)..(j - 1) : hist[k].op = "keyDown" /\ hist[k].ran

C32_Witness ==
  /\ Len(hist) = 4
  /\ hist[1].op = "registerShortcut" /\ hist[1].arg.holdDuration = Some(250)
  /\ hist[2].op = "keyDown" /\ hist[2].ran
  /\ hist[3].op = "advanceTimers" /\ hist[3].arg = 10 /\ hist[3].fired = <<"m1">>
  /\ hist[4].op = "advanceTimers" /\ hist[4].arg = 10 /\ hist[4].fired = <<>>
  /\ keysDown = <<"f">>
  /\ ~IsDefined(holdInterval)

\* C33: in every state in which no hold tick is running the hold accumulator is zero; in
\* particular it is zero after every key-up, also when a hold callback has fired before
C33_NoTickMeansZero ==
  /\ ~IsDefined(holdInterval) => holdTimer = 0
  /\ (Len(hist) > 0 /\ Last.op = "keyUp") => (~IsDefined(holdInterval) /\ holdTimer = 0)

-----------------------------------------------------------------------------
\* Hold bindings on several tokens of one key-down: registrations listing ctrl, x and
\* ctrl+x, the combination pressed with the flag, time passing.

MaxHistHoldTokens == 4

HoldTokensKeys ==
  {<<(<<"x">>)>>, <<(<<"ctrl", "x">>)>>, <<(<<"ctrl">>), (<<"x">>), (<<"ctrl", "x">>)>>}

HoldTokensDurations == {0, 200}

InitHoldTokens == InitWith(DefaultProps)

RegisterHoldTokens ==
  /\ Len(hist) < MaxHistHoldTokens
  /\ \E keys \in HoldTokensKeys, duration \in HoldTokensDurations :
       DoRegisterShortcut("h1", keys, Some(duration))

KeyDownHoldTokens ==
  /\ Len(hist) < MaxHistHoldTokens
  /\ \/ DoKeyDown(Flagged("ctrl", "x", "div"))
     \/ DoKeyDown(NoFlags("x", "div"))

AdvanceHoldTokens ==
  /\ Len(hist) < MaxHistHoldTokens
  /\ \E n \in {1, 3} : DoAdvanceTimers(n)

NextHoldTokens == RegisterHoldTokens \/ KeyDownHoldTokens \/ AdvanceHoldTokens

SpecHoldTokens == InitHoldTokens /\ [][NextHoldTokens]_vars

\* C34: one tick invokes the hold callback of the current combination string at most
\* once, also when several tokens of the last key-down have reached their hold duration
C34_OncePerTick ==
  \A i \in 1..Len(hist) :
    (hist[i].op = "advanceTimers" /\ hist[i].arg = 1) => Count(hist[i].fired, "h1") <= 1

-----------------------------------------------------------------------------
\* The tokens of pendingSequence, under SpecModifier.

\* C35: pendingSequence never contains a modifier token (ctrl, alt, meta, shift)
C35_NoModifierInSequence ==
  \A i \in 1..Len(previousKeys) : previousKeys[i] \notin Modifiers

-----------------------------------------------------------------------------
\* Whole-buffer matching of sequences, under SpecSeq.

\* the key under which registerSequenceShortcut files the key list
SequenceKeyOf(keys) == Join([i \in 1..Len(keys) |-> RawString(keys[i])], ",")

\* a sequence with this key was registered by an earlier call
SequenceRegistered(sequenceKeys) ==
  \E n \in 1..Len(hist) :
    /\ hist[n].op = "registerSequenceShortcut"
    /\ SequenceKeyOf(hist[n].arg.keys) = sequenceKeys

\* C36: a key-down invokes a sequence callback only if the comma-join of the whole of
\* pendingSequence, the pressed key included, is the key of a registered sequence; a
\* registered sequence that is only a suffix of it does not fire
C36_WholeBufferMatch ==
  [][Runs("keyDown") =>
       LET e == hist'[Len(hist')].arg
           whole == Join(previousKeys \o <<EventKey(e)>>, ",")
       IN Has(fired', "s1") => (hist'[Len(hist')].ran /\ SequenceRegistered(whole))]_vars

C36_Witness ==
  /\ Len(hist) = 4
  /\ hist[1].op = "registerSequenceShortcut" /\ hist[1].arg.keys = AsKeyList(<<"a">>)
  /\ hist[2].op = "keyDown" /\ hist[2].arg.key = "b" /\ hist[2].ran
  /\ hist[3].op = "keyUp" /\ hist[3].arg.key = "b"
  /\ hist[4].op = "keyDown" /\ hist[4].arg.key = "a" /\ hist[4].ran
  /\ previousKeys = <<"b", "a">>
  /\ IsDefined(sequenceTimer)
  /\ fired = <<>>

-----------------------------------------------------------------------------
\* Teardown: the effect's cleanup detaches the three event listeners; after it no key
\* event reaches the engine, while time goes on.

\* lines 454-458: the cleanup removes the listeners and touches no ref
cleanup(s) == Enter(s)

Cleanup == Apply(cleanup(Cur))

MaxHistTeardown == 4

TeardownDurations == {0, 200}

\* the listeners have been detached
TornDown == \E i \in 1..Len(hist) : hist[i].op = "cleanup"

InitTeardown == InitWith(DefaultProps)

RegisterTeardown ==
  /\ Len(hist) < MaxHistTeardown
  /\ ~TornDown
  /\ \/ \E duration \in TeardownDurations :
          DoRegisterShortcut("h1", <<(<<"f">>)>>, Some(duration))
     \/ DoRegisterSequenceShortcut("s1", AsKeyList(<<"a">>))

KeyDownTeardown ==
  /\ Len(hist) < MaxHistTeardown
  /\ ~TornDown
  /\ \E key \in {"f", "a"} : DoKeyDown(NoFlags(key, "div"))

CleanupTeardown ==
  /\ Len(hist) < MaxHistTeardown
  /\ ~TornDown
  /\ Cleanup
  /\ Log("cleanup", <<>>, TRUE)

AdvanceTeardown ==
  /\ Len(hist) < MaxHistTeardown
  /\ \E n \in {1, 3} : DoAdvanceTimers(n)

NextTeardown == RegisterTeardown \/ KeyDownTeardown \/ CleanupTeardown \/ AdvanceTeardown

SpecTeardown == InitTeardown /\ [][NextTeardown]_vars

\* C37: once the listeners are detached no hold tick and no sequence timeout is pending,
\* and no callback is invoked any more
C37_TeardownCancelsTimers ==
  TornDown =>
    /\ ~IsDefined(holdInterval)
    /\ ~IsDefined(sequenceTimer)
    /\ fired = <<>>

-----------------------------------------------------------------------------
\* Disabling the engine while a hold is in progress.

MaxHistDisable == 4

DisableDurations == {0, 200}

InitDisable == InitWith(DefaultProps)

RegisterDisable ==
  /\ Len(hist) < MaxHistDisable
  /\ \E duration \in DisableDurations :
       DoRegisterShortcut("h1", <<(<<"f">>)>>, Some(duration))

KeyDownDisable ==
  /\ Len(hist) < MaxHistDisable
  /\ DoKeyDown(NoFlags("f", "div"))

SetEnabledDisable ==
  /\ Len(hist) < MaxHistDisable
  /\ \E enabled \in BOOLEAN : DoSetEnabled(enabled)

AdvanceDisable ==
  /\ Len(hist) < MaxHistDisable
  /\ \E n \in {1, 3} : DoAdvanceTimers(n)

NextDisable == RegisterDisable \/ KeyDownDisable \/ SetEnabledDisable \/ AdvanceDisable

SpecDisable == InitDisable /\ [][NextDisable]_vars

\* C38: while the engine is disabled no step other than triggerShortcut invokes a
\* callback, neither a key event nor a tick of a hold started before it was disabled
C38_DisabledInvokesNothing ==
  [][(~isEnabled /\ ~Runs("triggerShortcut")) => fired' = <<>>]_vars

-----------------------------------------------------------------------------
\* Agreement of the bindings list with the listener maps, under SpecRegistry.

\* the listed combination bindings whose keys include the key
CombinationBindingsWith(key) ==
  {i \in 1..Len(shortcuts) :
     ~shortcuts[i].hold /\ ~shortcuts[i].sequence /\ Has(shortcuts[i].keys, key)}

\* C39: for every key the number of listed combination bindings whose keys include it is
\* the length of its list in comboListeners, and every entry of holdListeners and of
\* sequenceListeners belongs to a binding that is still listed
C39_ListAgreesWithMaps ==
  /\ \A key \in RegistryKeys \cup DOMAIN listeners :
       Cardinality(CombinationBindingsWith(key)) =
         IF key \in DOMAIN listeners THEN Len(listeners[key]) ELSE 0
  /\ \A key \in DOMAIN holdListeners :
       \E i \in 1..Len(shortcuts) : shortcuts[i].hold /\ Has(shortcuts[i].keys, key)
  /\ \A key \in DOMAIN sequenceListeners :
       \E i \in 1..Len(shortcuts) :
         shortcuts[i].sequence /\ Join(MapSeq(shortcuts[i].keys, ToLowerCase), ",") = key

-----------------------------------------------------------------------------
\* The sequence buffer over time: key-downs are counted in hist, key-ups and single
\* ticks are not, and the timers' callbacks run whenever they are due. A running hold
\* interval is followed up to MaxHoldMs, which is beyond every sequence timeout used.

MaxHistLive == 2

MaxHoldMs == 2000

LiveProps == {DefaultProps, [DefaultProps EXCEPT !.sequenceTimeout = Some(300)]}

InitLive == \E p \in LiveProps : InitWith(p)

RegisterLive ==
  /\ Len(hist) < MaxHistLive
  /\ DoRegisterSequenceShortcut("s1", AsKeyList(<<"a">>))

KeyDownLive ==
  /\ Len(hist) < MaxHistLive
  /\ \E key \in {"a", "b"} : DoKeyDown(NoFlags(key, "div"))

KeyUpLive ==
  /\ \E key \in {"a", "b"} : KeyUp(NoFlags(key, "div"))
  /\ UNCHANGED hist

TickLive ==
  /\ IsDefined(holdInterval) => holdTimer < MaxHoldMs
  /\ AdvanceTimers(1)
  /\ UNCHANGED hist

NextLive == RegisterLive \/ KeyDownLive \/ KeyUpLive \/ TickLive

\* timers fire when they are due: time does not stand still
SpecLive == InitLive /\ [][NextLive]_vars /\ WF_vars(TickLive)

\* C40: whenever pendingSequence is non-empty a sequence timeout is pending, and
\* pendingSequence is emptied in the end: it is never left non-empty for good
C40_BufferIsCleared ==
  /\ [](previousKeys # <<>> => IsDefined(sequenceTimer))
  /\ (previousKeys # <<>>) ~> (previousKeys = <<>>)

C40_Witness ==
  /\ Len(hist) = 1
  /\ hist[1].op = "keyDown" /\ hist[1].arg.key = "a" /\ hist[1].ran
  /\ keysDown = <<"a">>
  /\ previousKeys = <<>>
  /\ ~IsDefined(sequenceTimer)

====
